---- MODULE Spec2Model ----
(***************************************************************************)
(* Model of src/notificacion.py: the channel factory                       *)
(* (NotificacionFactory), the subscriber (Usuario) and the subject         *)
(* (NotificacionSystem).                                                   *)
(*                                                                         *)
(* Python strings that the code converts (the channel tag, through         *)
(* str.upper) are sequences of one-character strings; strings the code     *)
(* only copies (names, addresses, messages) are TLA+ strings.  Objects are *)
(* identified by their position in the heap `usuarios` (allocation order). *)
(* The console output of a call is the sequence of structured events       *)
(* `salida`; an exception that leaves a call is `excepcion`.               *)
(***************************************************************************)
EXTENDS Integers, Sequences, FiniteSets

VARIABLES usuarios,      \* heap of constructed Usuario objects, by object id
          observadores,  \* NotificacionSystem._observadores: list of object ids
          salida,        \* events printed by the last call
          llamadas,      \* actualizar invocations made by the last call: [obj, mensaje]
          excepcion,     \* exception that escaped the last call (NoExc if none)
          retorno,       \* value returned by the last crearNotificacion call
          ultima,        \* the last call: [op, obj, tag, mensaje]
          previos,       \* _observadores as it was before the last call
          registro,      \* history: ids ordered by their most recent successful add
          tagsDados      \* history: the metodo_notif argument each object was built with

vars == <<usuarios, observadores, salida, llamadas, excepcion, retorno,
          ultima, previos, registro, tagsDados>>

----------------------------------------------------------------------------
(* Bounds and input sets *)

MaxObjs == 3

Nombres   == {"Alice", "Bob"}
Emails    == {"alice@corp.com", "bob@corp.com"}
Telefonos == {"555-1001", "555-2002"}
Mensajes  == {"v2.0", "alerta"}

T_email    == <<"e", "m", "a", "i", "l">>
T_Email    == <<"E", "m", "a", "i", "l">>
T_EMAIL    == <<"E", "M", "A", "I", "L">>
T_sms      == <<"s", "m", "s">>
T_SmS      == <<"S", "m", "S">>
T_SMS      == <<"S", "M", "S">>
T_push     == <<"p", "u", "s", "h">>
T_PUSH     == <<"P", "U", "S", "H">>
T_whatsapp == <<"w", "h", "a", "t", "s", "a", "p", "p">>
T_WHATSAPP == <<"W", "H", "A", "T", "S", "A", "P", "P">>
T_emai1    == <<"e", "m", "a", "i", "1">>
T_vacio    == << >>
T_telegram == <<"t", "e", "l", "e", "g", "r", "a", "m">>
\* "email" with a dotless i (U+0131), "sms" with a long s (U+017F), "straße"
T_emaIl_sinPunto == <<"e", "m", "a", "U+0131", "l">>
T_sms_eseLarga   == <<"U+017F", "m", "s">>
T_strasse        == <<"s", "t", "r", "a", "U+00DF", "e">>

Tags == {T_email, T_Email, T_EMAIL, T_sms, T_SmS, T_SMS, T_push, T_PUSH,
         T_whatsapp, T_WHATSAPP, T_emai1, T_vacio, T_telegram,
         T_emaIl_sinPunto, T_sms_eseLarga, T_strasse}

\* fields used by the subject's specification (a smaller draw of the same inputs)
HubNombres == {"Alice"}
HubTags    == {T_email, T_SmS, T_whatsapp}

----------------------------------------------------------------------------
(* str.upper and the comparison of tags the code makes with it *)

\* A character is written as itself when it is printable ASCII and as
\* "U+hhhh" (its code point) otherwise.

\* ASCII characters that str.upper leaves as they are: digits, upper-case
\* letters and some punctuation (any other unchanged character takes the
\* OTHER arm of UpperTabla)
AsciiSinCambio == {
    "0", "1", "2", "3", "4", "5", "6", "7", "8", "9", " ", "-", "_", ".", "@", "+",
    "A", "B", "C", "D", "E", "F", "G", "H", "I", "J", "K", "L", "M",
    "N", "O", "P", "Q", "R", "S", "T", "U", "V", "W", "X", "Y", "Z" }

\* the upper-case mapping of str.upper: one arm for every character that
\* str.upper changes (the result may be more than one character)
UpperTabla(c) ==
    CASE c = "a" -> <<"A">> [] c = "b" -> <<"B">> [] c = "c" -> <<"C">> [] c = "d" -> <<"D">>
      [] c = "e" -> <<"E">> [] c = "f" -> <<"F">> [] c = "g" -> <<"G">> [] c = "h" -> <<"H">>
      [] c = "i" -> <<"I">> [] c = "j" -> <<"J">> [] c = "k" -> <<"K">> [] c = "l" -> <<"L">>
      [] c = "m" -> <<"M">> [] c = "n" -> <<"N">> [] c = "o" -> <<"O">> [] c = "p" -> <<"P">>
      [] c = "q" -> <<"Q">> [] c = "r" -> <<"R">> [] c = "s" -> <<"S">> [] c = "t" -> <<"T">>
      [] c = "u" -> <<"U">> [] c = "v" -> <<"V">> [] c = "w" -> <<"W">> [] c = "x" -> <<"X">>
      [] c = "y" -> <<"Y">> [] c = "z" -> <<"Z">> [] c = "U+00B5" -> <<"U+039C">>
      [] c = "U+00DF" -> <<"S", "S">> [] c = "U+00E0" -> <<"U+00C0">>
      [] c = "U+00E1" -> <<"U+00C1">> [] c = "U+00E2" -> <<"U+00C2">>
      [] c = "U+00E3" -> <<"U+00C3">> [] c = "U+00E4" -> <<"U+00C4">>
      [] c = "U+00E5" -> <<"U+00C5">> [] c = "U+00E6" -> <<"U+00C6">>
      [] c = "U+00E7" -> <<"U+00C7">> [] c = "U+00E8" -> <<"U+00C8">>
      [] c = "U+00E9" -> <<"U+00C9">> [] c = "U+00EA" -> <<"U+00CA">>
      [] c = "U+00EB" -> <<"U+00CB">> [] c = "U+00EC" -> <<"U+00CC">>
      [] c = "U+00ED" -> <<"U+00CD">> [] c = "U+00EE" -> <<"U+00CE">>
      [] c = "U+00EF" -> <<"U+00CF">> [] c = "U+00F0" -> <<"U+00D0">>
      [] c = "U+00F1" -> <<"U+00D1">> [] c = "U+00F2" -> <<"U+00D2">>
      [] c = "U+00F3" -> <<"U+00D3">> [] c = "U+00F4" -> <<"U+00D4">>
      [] c = "U+00F5" -> <<"U+00D5">> [] c = "U+00F6" -> <<"U+00D6">>
      [] c = "U+00F8" -> <<"U+00D8">> [] c = "U+00F9" -> <<"U+00D9">>
      [] c = "U+00FA" -> <<"U+00DA">> [] c = "U+00FB" -> <<"U+00DB">>
      [] c = "U+00FC" -> <<"U+00DC">> [] c = "U+00FD" -> <<"U+00DD">>
      [] c = "U+00FE" -> <<"U+00DE">> [] c = "U+00FF" -> <<"U+0178">>
      [] c = "U+0101" -> <<"U+0100">> [] c = "U+0103" -> <<"U+0102">>
      [] c = "U+0105" -> <<"U+0104">> [] c = "U+0107" -> <<"U+0106">>
      [] c = "U+0109" -> <<"U+0108">> [] c = "U+010B" -> <<"U+010A">>
      [] c = "U+010D" -> <<"U+010C">> [] c = "U+010F" -> <<"U+010E">>
      [] c = "U+0111" -> <<"U+0110">> [] c = "U+0113" -> <<"U+0112">>
      [] c = "U+0115" -> <<"U+0114">> [] c = "U+0117" -> <<"U+0116">>
      [] c = "U+0119" -> <<"U+0118">> [] c = "U+011B" -> <<"U+011A">>
      [] c = "U+011D" -> <<"U+011C">> [] c = "U+011F" -> <<"U+011E">>
      [] c = "U+0121" -> <<"U+0120">> [] c = "U+0123" -> <<"U+0122">>
      [] c = "U+0125" -> <<"U+0124">> [] c = "U+0127" -> <<"U+0126">>
      [] c = "U+0129" -> <<"U+0128">> [] c = "U+012B" -> <<"U+012A">>
      [] c = "U+012D" -> <<"U+012C">> [] c = "U+012F" -> <<"U+012E">> [] c = "U+0131" -> <<"I">>
      [] c = "U+0133" -> <<"U+0132">> [] c = "U+0135" -> <<"U+0134">>
      [] c = "U+0137" -> <<"U+0136">> [] c = "U+013A" -> <<"U+0139">>
      [] c = "U+013C" -> <<"U+013B">> [] c = "U+013E" -> <<"U+013D">>
      [] c = "U+0140" -> <<"U+013F">> [] c = "U+0142" -> <<"U+0141">>
      [] c = "U+0144" -> <<"U+0143">> [] c = "U+0146" -> <<"U+0145">>
      [] c = "U+0148" -> <<"U+0147">> [] c = "U+0149" -> <<"U+02BC", "N">>
      [] c = "U+014B" -> <<"U+014A">> [] c = "U+014D" -> <<"U+014C">>
      [] c = "U+014F" -> <<"U+014E">> [] c = "U+0151" -> <<"U+0150">>
      [] c = "U+0153" -> <<"U+0152">> [] c = "U+0155" -> <<"U+0154">>
      [] c = "U+0157" -> <<"U+0156">> [] c = "U+0159" -> <<"U+0158">>
      [] c = "U+015B" -> <<"U+015A">> [] c = "U+015D" -> <<"U+015C">>
      [] c = "U+015F" -> <<"U+015E">> [] c = "U+0161" -> <<"U+0160">>
      [] c = "U+0163" -> <<"U+0162">> [] c = "U+0165" -> <<"U+0164">>
      [] c = "U+0167" -> <<"U+0166">> [] c = "U+0169" -> <<"U+0168">>
      [] c = "U+016B" -> <<"U+016A">> [] c = "U+016D" -> <<"U+016C">>
      [] c = "U+016F" -> <<"U+016E">> [] c = "U+0171" -> <<"U+0170">>
      [] c = "U+0173" -> <<"U+0172">> [] c = "U+0175" -> <<"U+0174">>
      [] c = "U+0177" -> <<"U+0176">> [] c = "U+017A" -> <<"U+0179">>
      [] c = "U+017C" -> <<"U+017B">> [] c = "U+017E" -> <<"U+017D">> [] c = "U+017F" -> <<"S">>
      [] c = "U+0180" -> <<"U+0243">> [] c = "U+0183" -> <<"U+0182">>
      [] c = "U+0185" -> <<"U+0184">> [] c = "U+0188" -> <<"U+0187">>
      [] c = "U+018C" -> <<"U+018B">> [] c = "U+0192" -> <<"U+0191">>
      [] c = "U+0195" -> <<"U+01F6">> [] c = "U+0199" -> <<"U+0198">>
      [] c = "U+019A" -> <<"U+023D">> [] c = "U+019E" -> <<"U+0220">>
      [] c = "U+01A1" -> <<"U+01A0">> [] c = "U+01A3" -> <<"U+01A2">>
      [] c = "U+01A5" -> <<"U+01A4">> [] c = "U+01A8" -> <<"U+01A7">>
      [] c = "U+01AD" -> <<"U+01AC">> [] c = "U+01B0" -> <<"U+01AF">>
      [] c = "U+01B4" -> <<"U+01B3">> [] c = "U+01B6" -> <<"U+01B5">>
      [] c = "U+01B9" -> <<"U+01B8">> [] c = "U+01BD" -> <<"U+01BC">>
      [] c = "U+01BF" -> <<"U+01F7">> [] c = "U+01C5" -> <<"U+01C4">>
      [] c = "U+01C6" -> <<"U+01C4">> [] c = "U+01C8" -> <<"U+01C7">>
      [] c = "U+01C9" -> <<"U+01C7">> [] c = "U+01CB" -> <<"U+01CA">>
      [] c = "U+01CC" -> <<"U+01CA">> [] c = "U+01CE" -> <<"U+01CD">>
      [] c = "U+01D0" -> <<"U+01CF">> [] c = "U+01D2" -> <<"U+01D1">>
      [] c = "U+01D4" -> <<"U+01D3">> [] c = "U+01D6" -> <<"U+01D5">>
      [] c = "U+01D8" -> <<"U+01D7">> [] c = "U+01DA" -> <<"U+01D9">>
      [] c = "U+01DC" -> <<"U+01DB">> [] c = "U+01DD" -> <<"U+018E">>
      [] c = "U+01DF" -> <<"U+01DE">> [] c = "U+01E1" -> <<"U+01E0">>
      [] c = "U+01E3" -> <<"U+01E2">> [] c = "U+01E5" -> <<"U+01E4">>
      [] c = "U+01E7" -> <<"U+01E6">> [] c = "U+01E9" -> <<"U+01E8">>
      [] c = "U+01EB" -> <<"U+01EA">> [] c = "U+01ED" -> <<"U+01EC">>
      [] c = "U+01EF" -> <<"U+01EE">> [] c = "U+01F0" -> <<"J", "U+030C">>
      [] c = "U+01F2" -> <<"U+01F1">> [] c = "U+01F3" -> <<"U+01F1">>
      [] c = "U+01F5" -> <<"U+01F4">> [] c = "U+01F9" -> <<"U+01F8">>
      [] c = "U+01FB" -> <<"U+01FA">> [] c = "U+01FD" -> <<"U+01FC">>
      [] c = "U+01FF" -> <<"U+01FE">> [] c = "U+0201" -> <<"U+0200">>
      [] c = "U+0203" -> <<"U+0202">> [] c = "U+0205" -> <<"U+0204">>
      [] c = "U+0207" -> <<"U+0206">> [] c = "U+0209" -> <<"U+0208">>
      [] c = "U+020B" -> <<"U+020A">> [] c = "U+020D" -> <<"U+020C">>
      [] c = "U+020F" -> <<"U+020E">> [] c = "U+0211" -> <<"U+0210">>
      [] c = "U+0213" -> <<"U+0212">> [] c = "U+0215" -> <<"U+0214">>
      [] c = "U+0217" -> <<"U+0216">> [] c = "U+0219" -> <<"U+0218">>
      [] c = "U+021B" -> <<"U+021A">> [] c = "U+021D" -> <<"U+021C">>
      [] c = "U+021F" -> <<"U+021E">> [] c = "U+0223" -> <<"U+0222">>
      [] c = "U+0225" -> <<"U+0224">> [] c = "U+0227" -> <<"U+0226">>
      [] c = "U+0229" -> <<"U+0228">> [] c = "U+022B" -> <<"U+022A">>
      [] c = "U+022D" -> <<"U+022C">> [] c = "U+022F" -> <<"U+022E">>
      [] c = "U+0231" -> <<"U+0230">> [] c = "U+0233" -> <<"U+0232">>
      [] c = "U+023C" -> <<"U+023B">> [] c = "U+023F" -> <<"U+2C7E">>
      [] c = "U+0240" -> <<"U+2C7F">> [] c = "U+0242" -> <<"U+0241">>
      [] c = "U+0247" -> <<"U+0246">> [] c = "U+0249" -> <<"U+0248">>
      [] c = "U+024B" -> <<"U+024A">> [] c = "U+024D" -> <<"U+024C">>
      [] c = "U+024F" -> <<"U+024E">> [] c = "U+0250" -> <<"U+2C6F">>
      [] c = "U+0251" -> <<"U+2C6D">> [] c = "U+0252" -> <<"U+2C70">>
      [] c = "U+0253" -> <<"U+0181">> [] c = "U+0254" -> <<"U+0186">>
      [] c = "U+0256" -> <<"U+0189">> [] c = "U+0257" -> <<"U+018A">>
      [] c = "U+0259" -> <<"U+018F">> [] c = "U+025B" -> <<"U+0190">>
      [] c = "U+025C" -> <<"U+A7AB">> [] c = "U+0260" -> <<"U+0193">>
      [] c = "U+0261" -> <<"U+A7AC">> [] c = "U+0263" -> <<"U+0194">>
      [] c = "U+0265" -> <<"U+A78D">> [] c = "U+0266" -> <<"U+A7AA">>
      [] c = "U+0268" -> <<"U+0197">> [] c = "U+0269" -> <<"U+0196">>
      [] c = "U+026A" -> <<"U+A7AE">> [] c = "U+026B" -> <<"U+2C62">>
      [] c = "U+026C" -> <<"U+A7AD">> [] c = "U+026F" -> <<"U+019C">>
      [] c = "U+0271" -> <<"U+2C6E">> [] c = "U+0272" -> <<"U+019D">>
      [] c = "U+0275" -> <<"U+019F">> [] c = "U+027D" -> <<"U+2C64">>
      [] c = "U+0280" -> <<"U+01A6">> [] c = "U+0282" -> <<"U+A7C5">>
      [] c = "U+0283" -> <<"U+01A9">> [] c = "U+0287" -> <<"U+A7B1">>
      [] c = "U+0288" -> <<"U+01AE">> [] c = "U+0289" -> <<"U+0244">>
      [] c = "U+028A" -> <<"U+01B1">> [] c = "U+028B" -> <<"U+01B2">>
      [] c = "U+028C" -> <<"U+0245">> [] c = "U+0292" -> <<"U+01B7">>
      [] c = "U+029D" -> <<"U+A7B2">> [] c = "U+029E" -> <<"U+A7B0">>
      [] c = "U+0345" -> <<"U+0399">> [] c = "U+0371" -> <<"U+0370">>
      [] c = "U+0373" -> <<"U+0372">> [] c = "U+0377" -> <<"U+0376">>
      [] c = "U+037B" -> <<"U+03FD">> [] c = "U+037C" -> <<"U+03FE">>
      [] c = "U+037D" -> <<"U+03FF">> [] c = "U+0390" -> <<"U+0399", "U+0308", "U+0301">>
      [] c = "U+03AC" -> <<"U+0386">> [] c = "U+03AD" -> <<"U+0388">>
      [] c = "U+03AE" -> <<"U+0389">> [] c = "U+03AF" -> <<"U+038A">>
      [] c = "U+03B0" -> <<"U+03A5", "U+0308", "U+0301">> [] c = "U+03B1" -> <<"U+0391">>
      [] c = "U+03B2" -> <<"U+0392">> [] c = "U+03B3" -> <<"U+0393">>
      [] c = "U+03B4" -> <<"U+0394">> [] c = "U+03B5" -> <<"U+0395">>
      [] c = "U+03B6" -> <<"U+0396">> [] c = "U+03B7" -> <<"U+0397">>
      [] c = "U+03B8" -> <<"U+0398">> [] c = "U+03B9" -> <<"U+0399">>
      [] c = "U+03BA" -> <<"U+039A">> [] c = "U+03BB" -> <<"U+039B">>
      [] c = "U+03BC" -> <<"U+039C">> [] c = "U+03BD" -> <<"U+039D">>
      [] c = "U+03BE" -> <<"U+039E">> [] c = "U+03BF" -> <<"U+039F">>
      [] c = "U+03C0" -> <<"U+03A0">> [] c = "U+03C1" -> <<"U+03A1">>
      [] c = "U+03C2" -> <<"U+03A3">> [] c = "U+03C3" -> <<"U+03A3">>
      [] c = "U+03C4" -> <<"U+03A4">> [] c = "U+03C5" -> <<"U+03A5">>
      [] c = "U+03C6" -> <<"U+03A6">> [] c = "U+03C7" -> <<"U+03A7">>
      [] c = "U+03C8" -> <<"U+03A8">> [] c = "U+03C9" -> <<"U+03A9">>
      [] c = "U+03CA" -> <<"U+03AA">> [] c = "U+03CB" -> <<"U+03AB">>
      [] c = "U+03CC" -> <<"U+038C">> [] c = "U+03CD" -> <<"U+038E">>
      [] c = "U+03CE" -> <<"U+038F">> [] c = "U+03D0" -> <<"U+0392">>
      [] c = "U+03D1" -> <<"U+0398">> [] c = "U+03D5" -> <<"U+03A6">>
      [] c = "U+03D6" -> <<"U+03A0">> [] c = "U+03D7" -> <<"U+03CF">>
      [] c = "U+03D9" -> <<"U+03D8">> [] c = "U+03DB" -> <<"U+03DA">>
      [] c = "U+03DD" -> <<"U+03DC">> [] c = "U+03DF" -> <<"U+03DE">>
      [] c = "U+03E1" -> <<"U+03E0">> [] c = "U+03E3" -> <<"U+03E2">>
      [] c = "U+03E5" -> <<"U+03E4">> [] c = "U+03E7" -> <<"U+03E6">>
      [] c = "U+03E9" -> <<"U+03E8">> [] c = "U+03EB" -> <<"U+03EA">>
      [] c = "U+03ED" -> <<"U+03EC">> [] c = "U+03EF" -> <<"U+03EE">>
      [] c = "U+03F0" -> <<"U+039A">> [] c = "U+03F1" -> <<"U+03A1">>
      [] c = "U+03F2" -> <<"U+03F9">> [] c = "U+03F3" -> <<"U+037F">>
      [] c = "U+03F5" -> <<"U+0395">> [] c = "U+03F8" -> <<"U+03F7">>
      [] c = "U+03FB" -> <<"U+03FA">> [] c = "U+0430" -> <<"U+0410">>
      [] c = "U+0431" -> <<"U+0411">> [] c = "U+0432" -> <<"U+0412">>
      [] c = "U+0433" -> <<"U+0413">> [] c = "U+0434" -> <<"U+0414">>
      [] c = "U+0435" -> <<"U+0415">> [] c = "U+0436" -> <<"U+0416">>
      [] c = "U+0437" -> <<"U+0417">> [] c = "U+0438" -> <<"U+0418">>
      [] c = "U+0439" -> <<"U+0419">> [] c = "U+043A" -> <<"U+041A">>
      [] c = "U+043B" -> <<"U+041B">> [] c = "U+043C" -> <<"U+041C">>
      [] c = "U+043D" -> <<"U+041D">> [] c = "U+043E" -> <<"U+041E">>
      [] c = "U+043F" -> <<"U+041F">> [] c = "U+0440" -> <<"U+0420">>
      [] c = "U+0441" -> <<"U+0421">> [] c = "U+0442" -> <<"U+0422">>
      [] c = "U+0443" -> <<"U+0423">> [] c = "U+0444" -> <<"U+0424">>
      [] c = "U+0445" -> <<"U+0425">> [] c = "U+0446" -> <<"U+0426">>
      [] c = "U+0447" -> <<"U+0427">> [] c = "U+0448" -> <<"U+0428">>
      [] c = "U+0449" -> <<"U+0429">> [] c = "U+044A" -> <<"U+042A">>
      [] c = "U+044B" -> <<"U+042B">> [] c = "U+044C" -> <<"U+042C">>
      [] c = "U+044D" -> <<"U+042D">> [] c = "U+044E" -> <<"U+042E">>
      [] c = "U+044F" -> <<"U+042F">> [] c = "U+0450" -> <<"U+0400">>
      [] c = "U+0451" -> <<"U+0401">> [] c = "U+0452" -> <<"U+0402">>
      [] c = "U+0453" -> <<"U+0403">> [] c = "U+0454" -> <<"U+0404">>
      [] c = "U+0455" -> <<"U+0405">> [] c = "U+0456" -> <<"U+0406">>
      [] c = "U+0457" -> <<"U+0407">> [] c = "U+0458" -> <<"U+0408">>
      [] c = "U+0459" -> <<"U+0409">> [] c = "U+045A" -> <<"U+040A">>
      [] c = "U+045B" -> <<"U+040B">> [] c = "U+045C" -> <<"U+040C">>
      [] c = "U+045D" -> <<"U+040D">> [] c = "U+045E" -> <<"U+040E">>
      [] c = "U+045F" -> <<"U+040F">> [] c = "U+0461" -> <<"U+0460">>
      [] c = "U+0463" -> <<"U+0462">> [] c = "U+0465" -> <<"U+0464">>
      [] c = "U+0467" -> <<"U+0466">> [] c = "U+0469" -> <<"U+0468">>
      [] c = "U+046B" -> <<"U+046A">> [] c = "U+046D" -> <<"U+046C">>
      [] c = "U+046F" -> <<"U+046E">> [] c = "U+0471" -> <<"U+0470">>
      [] c = "U+0473" -> <<"U+0472">> [] c = "U+0475" -> <<"U+0474">>
      [] c = "U+0477" -> <<"U+0476">> [] c = "U+0479" -> <<"U+0478">>
      [] c = "U+047B" -> <<"U+047A">> [] c = "U+047D" -> <<"U+047C">>
      [] c = "U+047F" -> <<"U+047E">> [] c = "U+0481" -> <<"U+0480">>
      [] c = "U+048B" -> <<"U+048A">> [] c = "U+048D" -> <<"U+048C">>
      [] c = "U+048F" -> <<"U+048E">> [] c = "U+0491" -> <<"U+0490">>
      [] c = "U+0493" -> <<"U+0492">> [] c = "U+0495" -> <<"U+0494">>
      [] c = "U+0497" -> <<"U+0496">> [] c = "U+0499" -> <<"U+0498">>
      [] c = "U+049B" -> <<"U+049A">> [] c = "U+049D" -> <<"U+049C">>
      [] c = "U+049F" -> <<"U+049E">> [] c = "U+04A1" -> <<"U+04A0">>
      [] c = "U+04A3" -> <<"U+04A2">> [] c = "U+04A5" -> <<"U+04A4">>
      [] c = "U+04A7" -> <<"U+04A6">> [] c = "U+04A9" -> <<"U+04A8">>
      [] c = "U+04AB" -> <<"U+04AA">> [] c = "U+04AD" -> <<"U+04AC">>
      [] c = "U+04AF" -> <<"U+04AE">> [] c = "U+04B1" -> <<"U+04B0">>
      [] c = "U+04B3" -> <<"U+04B2">> [] c = "U+04B5" -> <<"U+04B4">>
      [] c = "U+04B7" -> <<"U+04B6">> [] c = "U+04B9" -> <<"U+04B8">>
      [] c = "U+04BB" -> <<"U+04BA">> [] c = "U+04BD" -> <<"U+04BC">>
      [] c = "U+04BF" -> <<"U+04BE">> [] c = "U+04C2" -> <<"U+04C1">>
      [] c = "U+04C4" -> <<"U+04C3">> [] c = "U+04C6" -> <<"U+04C5">>
      [] c = "U+04C8" -> <<"U+04C7">> [] c = "U+04CA" -> <<"U+04C9">>
      [] c = "U+04CC" -> <<"U+04CB">> [] c = "U+04CE" -> <<"U+04CD">>
      [] c = "U+04CF" -> <<"U+04C0">> [] c = "U+04D1" -> <<"U+04D0">>
      [] c = "U+04D3" -> <<"U+04D2">> [] c = "U+04D5" -> <<"U+04D4">>
      [] c = "U+04D7" -> <<"U+04D6">> [] c = "U+04D9" -> <<"U+04D8">>
      [] c = "U+04DB" -> <<"U+04DA">> [] c = "U+04DD" -> <<"U+04DC">>
      [] c = "U+04DF" -> <<"U+04DE">> [] c = "U+04E1" -> <<"U+04E0">>
      [] c = "U+04E3" -> <<"U+04E2">> [] c = "U+04E5" -> <<"U+04E4">>
      [] c = "U+04E7" -> <<"U+04E6">> [] c = "U+04E9" -> <<"U+04E8">>
      [] c = "U+04EB" -> <<"U+04EA">> [] c = "U+04ED" -> <<"U+04EC">>
      [] c = "U+04EF" -> <<"U+04EE">> [] c = "U+04F1" -> <<"U+04F0">>
      [] c = "U+04F3" -> <<"U+04F2">> [] c = "U+04F5" -> <<"U+04F4">>
      [] c = "U+04F7" -> <<"U+04F6">> [] c = "U+04F9" -> <<"U+04F8">>
      [] c = "U+04FB" -> <<"U+04FA">> [] c = "U+04FD" -> <<"U+04FC">>
      [] c = "U+04FF" -> <<"U+04FE">> [] c = "U+0501" -> <<"U+0500">>
      [] c = "U+0503" -> <<"U+0502">> [] c = "U+0505" -> <<"U+0504">>
      [] c = "U+0507" -> <<"U+0506">> [] c = "U+0509" -> <<"U+0508">>
      [] c = "U+050B" -> <<"U+050A">> [] c = "U+050D" -> <<"U+050C">>
      [] c = "U+050F" -> <<"U+050E">> [] c = "U+0511" -> <<"U+0510">>
      [] c = "U+0513" -> <<"U+0512">> [] c = "U+0515" -> <<"U+0514">>
      [] c = "U+0517" -> <<"U+0516">> [] c = "U+0519" -> <<"U+0518">>
      [] c = "U+051B" -> <<"U+051A">> [] c = "U+051D" -> <<"U+051C">>
      [] c = "U+051F" -> <<"U+051E">> [] c = "U+0521" -> <<"U+0520">>
      [] c = "U+0523" -> <<"U+0522">> [] c = "U+0525" -> <<"U+0524">>
      [] c = "U+0527" -> <<"U+0526">> [] c = "U+0529" -> <<"U+0528">>
      [] c = "U+052B" -> <<"U+052A">> [] c = "U+052D" -> <<"U+052C">>
      [] c = "U+052F" -> <<"U+052E">> [] c = "U+0561" -> <<"U+0531">>
      [] c = "U+0562" -> <<"U+0532">> [] c = "U+0563" -> <<"U+0533">>
      [] c = "U+0564" -> <<"U+0534">> [] c = "U+0565" -> <<"U+0535">>
      [] c = "U+0566" -> <<"U+0536">> [] c = "U+0567" -> <<"U+0537">>
      [] c = "U+0568" -> <<"U+0538">> [] c = "U+0569" -> <<"U+0539">>
      [] c = "U+056A" -> <<"U+053A">> [] c = "U+056B" -> <<"U+053B">>
      [] c = "U+056C" -> <<"U+053C">> [] c = "U+056D" -> <<"U+053D">>
      [] c = "U+056E" -> <<"U+053E">> [] c = "U+056F" -> <<"U+053F">>
      [] c = "U+0570" -> <<"U+0540">> [] c = "U+0571" -> <<"U+0541">>
      [] c = "U+0572" -> <<"U+0542">> [] c = "U+0573" -> <<"U+0543">>
      [] c = "U+0574" -> <<"U+0544">> [] c = "U+0575" -> <<"U+0545">>
      [] c = "U+0576" -> <<"U+0546">> [] c = "U+0577" -> <<"U+0547">>
      [] c = "U+0578" -> <<"U+0548">> [] c = "U+0579" -> <<"U+0549">>
      [] c = "U+057A" -> <<"U+054A">> [] c = "U+057B" -> <<"U+054B">>
      [] c = "U+057C" -> <<"U+054C">> [] c = "U+057D" -> <<"U+054D">>
      [] c = "U+057E" -> <<"U+054E">> [] c = "U+057F" -> <<"U+054F">>
      [] c = "U+0580" -> <<"U+0550">> [] c = "U+0581" -> <<"U+0551">>
      [] c = "U+0582" -> <<"U+0552">> [] c = "U+0583" -> <<"U+0553">>
      [] c = "U+0584" -> <<"U+0554">> [] c = "U+0585" -> <<"U+0555">>
      [] c = "U+0586" -> <<"U+0556">> [] c = "U+0587" -> <<"U+0535", "U+0552">>
      [] c = "U+10D0" -> <<"U+1C90">> [] c = "U+10D1" -> <<"U+1C91">>
      [] c = "U+10D2" -> <<"U+1C92">> [] c = "U+10D3" -> <<"U+1C93">>
      [] c = "U+10D4" -> <<"U+1C94">> [] c = "U+10D5" -> <<"U+1C95">>
      [] c = "U+10D6" -> <<"U+1C96">> [] c = "U+10D7" -> <<"U+1C97">>
      [] c = "U+10D8" -> <<"U+1C98">> [] c = "U+10D9" -> <<"U+1C99">>
      [] c = "U+10DA" -> <<"U+1C9A">> [] c = "U+10DB" -> <<"U+1C9B">>
      [] c = "U+10DC" -> <<"U+1C9C">> [] c = "U+10DD" -> <<"U+1C9D">>
      [] c = "U+10DE" -> <<"U+1C9E">> [] c = "U+10DF" -> <<"U+1C9F">>
      [] c = "U+10E0" -> <<"U+1CA0">> [] c = "U+10E1" -> <<"U+1CA1">>
      [] c = "U+10E2" -> <<"U+1CA2">> [] c = "U+10E3" -> <<"U+1CA3">>
      [] c = "U+10E4" -> <<"U+1CA4">> [] c = "U+10E5" -> <<"U+1CA5">>
      [] c = "U+10E6" -> <<"U+1CA6">> [] c = "U+10E7" -> <<"U+1CA7">>
      [] c = "U+10E8" -> <<"U+1CA8">> [] c = "U+10E9" -> <<"U+1CA9">>
      [] c = "U+10EA" -> <<"U+1CAA">> [] c = "U+10EB" -> <<"U+1CAB">>
      [] c = "U+10EC" -> <<"U+1CAC">> [] c = "U+10ED" -> <<"U+1CAD">>
      [] c = "U+10EE" -> <<"U+1CAE">> [] c = "U+10EF" -> <<"U+1CAF">>
      [] c = "U+10F0" -> <<"U+1CB0">> [] c = "U+10F1" -> <<"U+1CB1">>
      [] c = "U+10F2" -> <<"U+1CB2">> [] c = "U+10F3" -> <<"U+1CB3">>
      [] c = "U+10F4" -> <<"U+1CB4">> [] c = "U+10F5" -> <<"U+1CB5">>
      [] c = "U+10F6" -> <<"U+1CB6">> [] c = "U+10F7" -> <<"U+1CB7">>
      [] c = "U+10F8" -> <<"U+1CB8">> [] c = "U+10F9" -> <<"U+1CB9">>
      [] c = "U+10FA" -> <<"U+1CBA">> [] c = "U+10FD" -> <<"U+1CBD">>
      [] c = "U+10FE" -> <<"U+1CBE">> [] c = "U+10FF" -> <<"U+1CBF">>
      [] c = "U+13F8" -> <<"U+13F0">> [] c = "U+13F9" -> <<"U+13F1">>
      [] c = "U+13FA" -> <<"U+13F2">> [] c = "U+13FB" -> <<"U+13F3">>
      [] c = "U+13FC" -> <<"U+13F4">> [] c = "U+13FD" -> <<"U+13F5">>
      [] c = "U+1C80" -> <<"U+0412">> [] c = "U+1C81" -> <<"U+0414">>
      [] c = "U+1C82" -> <<"U+041E">> [] c = "U+1C83" -> <<"U+0421">>
      [] c = "U+1C84" -> <<"U+0422">> [] c = "U+1C85" -> <<"U+0422">>
      [] c = "U+1C86" -> <<"U+042A">> [] c = "U+1C87" -> <<"U+0462">>
      [] c = "U+1C88" -> <<"U+A64A">> [] c = "U+1D79" -> <<"U+A77D">>
      [] c = "U+1D7D" -> <<"U+2C63">> [] c = "U+1D8E" -> <<"U+A7C6">>
      [] c = "U+1E01" -> <<"U+1E00">> [] c = "U+1E03" -> <<"U+1E02">>
      [] c = "U+1E05" -> <<"U+1E04">> [] c = "U+1E07" -> <<"U+1E06">>
      [] c = "U+1E09" -> <<"U+1E08">> [] c = "U+1E0B" -> <<"U+1E0A">>
      [] c = "U+1E0D" -> <<"U+1E0C">> [] c = "U+1E0F" -> <<"U+1E0E">>
      [] c = "U+1E11" -> <<"U+1E10">> [] c = "U+1E13" -> <<"U+1E12">>
      [] c = "U+1E15" -> <<"U+1E14">> [] c = "U+1E17" -> <<"U+1E16">>
      [] c = "U+1E19" -> <<"U+1E18">> [] c = "U+1E1B" -> <<"U+1E1A">>
      [] c = "U+1E1D" -> <<"U+1E1C">> [] c = "U+1E1F" -> <<"U+1E1E">>
      [] c = "U+1E21" -> <<"U+1E20">> [] c = "U+1E23" -> <<"U+1E22">>
      [] c = "U+1E25" -> <<"U+1E24">> [] c = "U+1E27" -> <<"U+1E26">>
      [] c = "U+1E29" -> <<"U+1E28">> [] c = "U+1E2B" -> <<"U+1E2A">>
      [] c = "U+1E2D" -> <<"U+1E2C">> [] c = "U+1E2F" -> <<"U+1E2E">>
      [] c = "U+1E31" -> <<"U+1E30">> [] c = "U+1E33" -> <<"U+1E32">>
      [] c = "U+1E35" -> <<"U+1E34">> [] c = "U+1E37" -> <<"U+1E36">>
      [] c = "U+1E39" -> <<"U+1E38">> [] c = "U+1E3B" -> <<"U+1E3A">>
      [] c = "U+1E3D" -> <<"U+1E3C">> [] c = "U+1E3F" -> <<"U+1E3E">>
      [] c = "U+1E41" -> <<"U+1E40">> [] c = "U+1E43" -> <<"U+1E42">>
      [] c = "U+1E45" -> <<"U+1E44">> [] c = "U+1E47" -> <<"U+1E46">>
      [] c = "U+1E49" -> <<"U+1E48">> [] c = "U+1E4B" -> <<"U+1E4A">>
      [] c = "U+1E4D" -> <<"U+1E4C">> [] c = "U+1E4F" -> <<"U+1E4E">>
      [] c = "U+1E51" -> <<"U+1E50">> [] c = "U+1E53" -> <<"U+1E52">>
      [] c = "U+1E55" -> <<"U+1E54">> [] c = "U+1E57" -> <<"U+1E56">>
      [] c = "U+1E59" -> <<"U+1E58">> [] c = "U+1E5B" -> <<"U+1E5A">>
      [] c = "U+1E5D" -> <<"U+1E5C">> [] c = "U+1E5F" -> <<"U+1E5E">>
      [] c = "U+1E61" -> <<"U+1E60">> [] c = "U+1E63" -> <<"U+1E62">>
      [] c = "U+1E65" -> <<"U+1E64">> [] c = "U+1E67" -> <<"U+1E66">>
      [] c = "U+1E69" -> <<"U+1E68">> [] c = "U+1E6B" -> <<"U+1E6A">>
      [] c = "U+1E6D" -> <<"U+1E6C">> [] c = "U+1E6F" -> <<"U+1E6E">>
      [] c = "U+1E71" -> <<"U+1E70">> [] c = "U+1E73" -> <<"U+1E72">>
      [] c = "U+1E75" -> <<"U+1E74">> [] c = "U+1E77" -> <<"U+1E76">>
      [] c = "U+1E79" -> <<"U+1E78">> [] c = "U+1E7B" -> <<"U+1E7A">>
      [] c = "U+1E7D" -> <<"U+1E7C">> [] c = "U+1E7F" -> <<"U+1E7E">>
      [] c = "U+1E81" -> <<"U+1E80">> [] c = "U+1E83" -> <<"U+1E82">>
      [] c = "U+1E85" -> <<"U+1E84">> [] c = "U+1E87" -> <<"U+1E86">>
      [] c = "U+1E89" -> <<"U+1E88">> [] c = "U+1E8B" -> <<"U+1E8A">>
      [] c = "U+1E8D" -> <<"U+1E8C">> [] c = "U+1E8F" -> <<"U+1E8E">>
      [] c = "U+1E91" -> <<"U+1E90">> [] c = "U+1E93" -> <<"U+1E92">>
      [] c = "U+1E95" -> <<"U+1E94">> [] c = "U+1E96" -> <<"H", "U+0331">>
      [] c = "U+1E97" -> <<"T", "U+0308">> [] c = "U+1E98" -> <<"W", "U+030A">>
      [] c = "U+1E99" -> <<"Y", "U+030A">> [] c = "U+1E9A" -> <<"A", "U+02BE">>
      [] c = "U+1E9B" -> <<"U+1E60">> [] c = "U+1EA1" -> <<"U+1EA0">>
      [] c = "U+1EA3" -> <<"U+1EA2">> [] c = "U+1EA5" -> <<"U+1EA4">>
      [] c = "U+1EA7" -> <<"U+1EA6">> [] c = "U+1EA9" -> <<"U+1EA8">>
      [] c = "U+1EAB" -> <<"U+1EAA">> [] c = "U+1EAD" -> <<"U+1EAC">>
      [] c = "U+1EAF" -> <<"U+1EAE">> [] c = "U+1EB1" -> <<"U+1EB0">>
      [] c = "U+1EB3" -> <<"U+1EB2">> [] c = "U+1EB5" -> <<"U+1EB4">>
      [] c = "U+1EB7" -> <<"U+1EB6">> [] c = "U+1EB9" -> <<"U+1EB8">>
      [] c = "U+1EBB" -> <<"U+1EBA">> [] c = "U+1EBD" -> <<"U+1EBC">>
      [] c = "U+1EBF" -> <<"U+1EBE">> [] c = "U+1EC1" -> <<"U+1EC0">>
      [] c = "U+1EC3" -> <<"U+1EC2">> [] c = "U+1EC5" -> <<"U+1EC4">>
      [] c = "U+1EC7" -> <<"U+1EC6">> [] c = "U+1EC9" -> <<"U+1EC8">>
      [] c = "U+1ECB" -> <<"U+1ECA">> [] c = "U+1ECD" -> <<"U+1ECC">>
      [] c = "U+1ECF" -> <<"U+1ECE">> [] c = "U+1ED1" -> <<"U+1ED0">>
      [] c = "U+1ED3" -> <<"U+1ED2">> [] c = "U+1ED5" -> <<"U+1ED4">>
      [] c = "U+1ED7" -> <<"U+1ED6">> [] c = "U+1ED9" -> <<"U+1ED8">>
      [] c = "U+1EDB" -> <<"U+1EDA">> [] c = "U+1EDD" -> <<"U+1EDC">>
      [] c = "U+1EDF" -> <<"U+1EDE">> [] c = "U+1EE1" -> <<"U+1EE0">>
      [] c = "U+1EE3" -> <<"U+1EE2">> [] c = "U+1EE5" -> <<"U+1EE4">>
      [] c = "U+1EE7" -> <<"U+1EE6">> [] c = "U+1EE9" -> <<"U+1EE8">>
      [] c = "U+1EEB" -> <<"U+1EEA">> [] c = "U+1EED" -> <<"U+1EEC">>
      [] c = "U+1EEF" -> <<"U+1EEE">> [] c = "U+1EF1" -> <<"U+1EF0">>
      [] c = "U+1EF3" -> <<"U+1EF2">> [] c = "U+1EF5" -> <<"U+1EF4">>
      [] c = "U+1EF7" -> <<"U+1EF6">> [] c = "U+1EF9" -> <<"U+1EF8">>
      [] c = "U+1EFB" -> <<"U+1EFA">> [] c = "U+1EFD" -> <<"U+1EFC">>
      [] c = "U+1EFF" -> <<"U+1EFE">> [] c = "U+1F00" -> <<"U+1F08">>
      [] c = "U+1F01" -> <<"U+1F09">> [] c = "U+1F02" -> <<"U+1F0A">>
      [] c = "U+1F03" -> <<"U+1F0B">> [] c = "U+1F04" -> <<"U+1F0C">>
      [] c = "U+1F05" -> <<"U+1F0D">> [] c = "U+1F06" -> <<"U+1F0E">>
      [] c = "U+1F07" -> <<"U+1F0F">> [] c = "U+1F10" -> <<"U+1F18">>
      [] c = "U+1F11" -> <<"U+1F19">> [] c = "U+1F12" -> <<"U+1F1A">>
      [] c = "U+1F13" -> <<"U+1F1B">> [] c = "U+1F14" -> <<"U+1F1C">>
      [] c = "U+1F15" -> <<"U+1F1D">> [] c = "U+1F20" -> <<"U+1F28">>
      [] c = "U+1F21" -> <<"U+1F29">> [] c = "U+1F22" -> <<"U+1F2A">>
      [] c = "U+1F23" -> <<"U+1F2B">> [] c = "U+1F24" -> <<"U+1F2C">>
      [] c = "U+1F25" -> <<"U+1F2D">> [] c = "U+1F26" -> <<"U+1F2E">>
      [] c = "U+1F27" -> <<"U+1F2F">> [] c = "U+1F30" -> <<"U+1F38">>
      [] c = "U+1F31" -> <<"U+1F39">> [] c = "U+1F32" -> <<"U+1F3A">>
      [] c = "U+1F33" -> <<"U+1F3B">> [] c = "U+1F34" -> <<"U+1F3C">>
      [] c = "U+1F35" -> <<"U+1F3D">> [] c = "U+1F36" -> <<"U+1F3E">>
      [] c = "U+1F37" -> <<"U+1F3F">> [] c = "U+1F40" -> <<"U+1F48">>
      [] c = "U+1F41" -> <<"U+1F49">> [] c = "U+1F42" -> <<"U+1F4A">>
      [] c = "U+1F43" -> <<"U+1F4B">> [] c = "U+1F44" -> <<"U+1F4C">>
      [] c = "U+1F45" -> <<"U+1F4D">> [] c = "U+1F50" -> <<"U+03A5", "U+0313">>
      [] c = "U+1F51" -> <<"U+1F59">> [] c = "U+1F52" -> <<"U+03A5", "U+0313", "U+0300">>
      [] c = "U+1F53" -> <<"U+1F5B">> [] c = "U+1F54" -> <<"U+03A5", "U+0313", "U+0301">>
      [] c = "U+1F55" -> <<"U+1F5D">> [] c = "U+1F56" -> <<"U+03A5", "U+0313", "U+0342">>
      [] c = "U+1F57" -> <<"U+1F5F">> [] c = "U+1F60" -> <<"U+1F68">>
      [] c = "U+1F61" -> <<"U+1F69">> [] c = "U+1F62" -> <<"U+1F6A">>
      [] c = "U+1F63" -> <<"U+1F6B">> [] c = "U+1F64" -> <<"U+1F6C">>
      [] c = "U+1F65" -> <<"U+1F6D">> [] c = "U+1F66" -> <<"U+1F6E">>
      [] c = "U+1F67" -> <<"U+1F6F">> [] c = "U+1F70" -> <<"U+1FBA">>
      [] c = "U+1F71" -> <<"U+1FBB">> [] c = "U+1F72" -> <<"U+1FC8">>
      [] c = "U+1F73" -> <<"U+1FC9">> [] c = "U+1F74" -> <<"U+1FCA">>
      [] c = "U+1F75" -> <<"U+1FCB">> [] c = "U+1F76" -> <<"U+1FDA">>
      [] c = "U+1F77" -> <<"U+1FDB">> [] c = "U+1F78" -> <<"U+1FF8">>
      [] c = "U+1F79" -> <<"U+1FF9">> [] c = "U+1F7A" -> <<"U+1FEA">>
      [] c = "U+1F7B" -> <<"U+1FEB">> [] c = "U+1F7C" -> <<"U+1FFA">>
      [] c = "U+1F7D" -> <<"U+1FFB">> [] c = "U+1F80" -> <<"U+1F08", "U+0399">>
      [] c = "U+1F81" -> <<"U+1F09", "U+0399">> [] c = "U+1F82" -> <<"U+1F0A", "U+0399">>
      [] c = "U+1F83" -> <<"U+1F0B", "U+0399">> [] c = "U+1F84" -> <<"U+1F0C", "U+0399">>
      [] c = "U+1F85" -> <<"U+1F0D", "U+0399">> [] c = "U+1F86" -> <<"U+1F0E", "U+0399">>
      [] c = "U+1F87" -> <<"U+1F0F", "U+0399">> [] c = "U+1F88" -> <<"U+1F08", "U+0399">>
      [] c = "U+1F89" -> <<"U+1F09", "U+0399">> [] c = "U+1F8A" -> <<"U+1F0A", "U+0399">>
      [] c = "U+1F8B" -> <<"U+1F0B", "U+0399">> [] c = "U+1F8C" -> <<"U+1F0C", "U+0399">>
      [] c = "U+1F8D" -> <<"U+1F0D", "U+0399">> [] c = "U+1F8E" -> <<"U+1F0E", "U+0399">>
      [] c = "U+1F8F" -> <<"U+1F0F", "U+0399">> [] c = "U+1F90" -> <<"U+1F28", "U+0399">>
      [] c = "U+1F91" -> <<"U+1F29", "U+0399">> [] c = "U+1F92" -> <<"U+1F2A", "U+0399">>
      [] c = "U+1F93" -> <<"U+1F2B", "U+0399">> [] c = "U+1F94" -> <<"U+1F2C", "U+0399">>
      [] c = "U+1F95" -> <<"U+1F2D", "U+0399">> [] c = "U+1F96" -> <<"U+1F2E", "U+0399">>
      [] c = "U+1F97" -> <<"U+1F2F", "U+0399">> [] c = "U+1F98" -> <<"U+1F28", "U+0399">>
      [] c = "U+1F99" -> <<"U+1F29", "U+0399">> [] c = "U+1F9A" -> <<"U+1F2A", "U+0399">>
      [] c = "U+1F9B" -> <<"U+1F2B", "U+0399">> [] c = "U+1F9C" -> <<"U+1F2C", "U+0399">>
      [] c = "U+1F9D" -> <<"U+1F2D", "U+0399">> [] c = "U+1F9E" -> <<"U+1F2E", "U+0399">>
      [] c = "U+1F9F" -> <<"U+1F2F", "U+0399">> [] c = "U+1FA0" -> <<"U+1F68", "U+0399">>
      [] c = "U+1FA1" -> <<"U+1F69", "U+0399">> [] c = "U+1FA2" -> <<"U+1F6A", "U+0399">>
      [] c = "U+1FA3" -> <<"U+1F6B", "U+0399">> [] c = "U+1FA4" -> <<"U+1F6C", "U+0399">>
      [] c = "U+1FA5" -> <<"U+1F6D", "U+0399">> [] c = "U+1FA6" -> <<"U+1F6E", "U+0399">>
      [] c = "U+1FA7" -> <<"U+1F6F", "U+0399">> [] c = "U+1FA8" -> <<"U+1F68", "U+0399">>
      [] c = "U+1FA9" -> <<"U+1F69", "U+0399">> [] c = "U+1FAA" -> <<"U+1F6A", "U+0399">>
      [] c = "U+1FAB" -> <<"U+1F6B", "U+0399">> [] c = "U+1FAC" -> <<"U+1F6C", "U+0399">>
      [] c = "U+1FAD" -> <<"U+1F6D", "U+0399">> [] c = "U+1FAE" -> <<"U+1F6E", "U+0399">>
      [] c = "U+1FAF" -> <<"U+1F6F", "U+0399">> [] c = "U+1FB0" -> <<"U+1FB8">>
      [] c = "U+1FB1" -> <<"U+1FB9">> [] c = "U+1FB2" -> <<"U+1FBA", "U+0399">>
      [] c = "U+1FB3" -> <<"U+0391", "U+0399">> [] c = "U+1FB4" -> <<"U+0386", "U+0399">>
      [] c = "U+1FB6" -> <<"U+0391", "U+0342">>
      [] c = "U+1FB7" -> <<"U+0391", "U+0342", "U+0399">>
      [] c = "U+1FBC" -> <<"U+0391", "U+0399">> [] c = "U+1FBE" -> <<"U+0399">>
      [] c = "U+1FC2" -> <<"U+1FCA", "U+0399">> [] c = "U+1FC3" -> <<"U+0397", "U+0399">>
      [] c = "U+1FC4" -> <<"U+0389", "U+0399">> [] c = "U+1FC6" -> <<"U+0397", "U+0342">>
      [] c = "U+1FC7" -> <<"U+0397", "U+0342", "U+0399">>
      [] c = "U+1FCC" -> <<"U+0397", "U+0399">> [] c = "U+1FD0" -> <<"U+1FD8">>
      [] c = "U+1FD1" -> <<"U+1FD9">> [] c = "U+1FD2" -> <<"U+0399", "U+0308", "U+0300">>
      [] c = "U+1FD3" -> <<"U+0399", "U+0308", "U+0301">>
      [] c = "U+1FD6" -> <<"U+0399", "U+0342">>
      [] c = "U+1FD7" -> <<"U+0399", "U+0308", "U+0342">> [] c = "U+1FE0" -> <<"U+1FE8">>
      [] c = "U+1FE1" -> <<"U+1FE9">> [] c = "U+1FE2" -> <<"U+03A5", "U+0308", "U+0300">>
      [] c = "U+1FE3" -> <<"U+03A5", "U+0308", "U+0301">>
      [] c = "U+1FE4" -> <<"U+03A1", "U+0313">> [] c = "U+1FE5" -> <<"U+1FEC">>
      [] c = "U+1FE6" -> <<"U+03A5", "U+0342">>
      [] c = "U+1FE7" -> <<"U+03A5", "U+0308", "U+0342">>
      [] c = "U+1FF2" -> <<"U+1FFA", "U+0399">> [] c = "U+1FF3" -> <<"U+03A9", "U+0399">>
      [] c = "U+1FF4" -> <<"U+038F", "U+0399">> [] c = "U+1FF6" -> <<"U+03A9", "U+0342">>
      [] c = "U+1FF7" -> <<"U+03A9", "U+0342", "U+0399">>
      [] c = "U+1FFC" -> <<"U+03A9", "U+0399">> [] c = "U+214E" -> <<"U+2132">>
      [] c = "U+2170" -> <<"U+2160">> [] c = "U+2171" -> <<"U+2161">>
      [] c = "U+2172" -> <<"U+2162">> [] c = "U+2173" -> <<"U+2163">>
      [] c = "U+2174" -> <<"U+2164">> [] c = "U+2175" -> <<"U+2165">>
      [] c = "U+2176" -> <<"U+2166">> [] c = "U+2177" -> <<"U+2167">>
      [] c = "U+2178" -> <<"U+2168">> [] c = "U+2179" -> <<"U+2169">>
      [] c = "U+217A" -> <<"U+216A">> [] c = "U+217B" -> <<"U+216B">>
      [] c = "U+217C" -> <<"U+216C">> [] c = "U+217D" -> <<"U+216D">>
      [] c = "U+217E" -> <<"U+216E">> [] c = "U+217F" -> <<"U+216F">>
      [] c = "U+2184" -> <<"U+2183">> [] c = "U+24D0" -> <<"U+24B6">>
      [] c = "U+24D1" -> <<"U+24B7">> [] c = "U+24D2" -> <<"U+24B8">>
      [] c = "U+24D3" -> <<"U+24B9">> [] c = "U+24D4" -> <<"U+24BA">>
      [] c = "U+24D5" -> <<"U+24BB">> [] c = "U+24D6" -> <<"U+24BC">>
      [] c = "U+24D7" -> <<"U+24BD">> [] c = "U+24D8" -> <<"U+24BE">>
      [] c = "U+24D9" -> <<"U+24BF">> [] c = "U+24DA" -> <<"U+24C0">>
      [] c = "U+24DB" -> <<"U+24C1">> [] c = "U+24DC" -> <<"U+24C2">>
      [] c = "U+24DD" -> <<"U+24C3">> [] c = "U+24DE" -> <<"U+24C4">>
      [] c = "U+24DF" -> <<"U+24C5">> [] c = "U+24E0" -> <<"U+24C6">>
      [] c = "U+24E1" -> <<"U+24C7">> [] c = "U+24E2" -> <<"U+24C8">>
      [] c = "U+24E3" -> <<"U+24C9">> [] c = "U+24E4" -> <<"U+24CA">>
      [] c = "U+24E5" -> <<"U+24CB">> [] c = "U+24E6" -> <<"U+24CC">>
      [] c = "U+24E7" -> <<"U+24CD">> [] c = "U+24E8" -> <<"U+24CE">>
      [] c = "U+24E9" -> <<"U+24CF">> [] c = "U+2C30" -> <<"U+2C00">>
      [] c = "U+2C31" -> <<"U+2C01">> [] c = "U+2C32" -> <<"U+2C02">>
      [] c = "U+2C33" -> <<"U+2C03">> [] c = "U+2C34" -> <<"U+2C04">>
      [] c = "U+2C35" -> <<"U+2C05">> [] c = "U+2C36" -> <<"U+2C06">>
      [] c = "U+2C37" -> <<"U+2C07">> [] c = "U+2C38" -> <<"U+2C08">>
      [] c = "U+2C39" -> <<"U+2C09">> [] c = "U+2C3A" -> <<"U+2C0A">>
      [] c = "U+2C3B" -> <<"U+2C0B">> [] c = "U+2C3C" -> <<"U+2C0C">>
      [] c = "U+2C3D" -> <<"U+2C0D">> [] c = "U+2C3E" -> <<"U+2C0E">>
      [] c = "U+2C3F" -> <<"U+2C0F">> [] c = "U+2C40" -> <<"U+2C10">>
      [] c = "U+2C41" -> <<"U+2C11">> [] c = "U+2C42" -> <<"U+2C12">>
      [] c = "U+2C43" -> <<"U+2C13">> [] c = "U+2C44" -> <<"U+2C14">>
      [] c = "U+2C45" -> <<"U+2C15">> [] c = "U+2C46" -> <<"U+2C16">>
      [] c = "U+2C47" -> <<"U+2C17">> [] c = "U+2C48" -> <<"U+2C18">>
      [] c = "U+2C49" -> <<"U+2C19">> [] c = "U+2C4A" -> <<"U+2C1A">>
      [] c = "U+2C4B" -> <<"U+2C1B">> [] c = "U+2C4C" -> <<"U+2C1C">>
      [] c = "U+2C4D" -> <<"U+2C1D">> [] c = "U+2C4E" -> <<"U+2C1E">>
      [] c = "U+2C4F" -> <<"U+2C1F">> [] c = "U+2C50" -> <<"U+2C20">>
      [] c = "U+2C51" -> <<"U+2C21">> [] c = "U+2C52" -> <<"U+2C22">>
      [] c = "U+2C53" -> <<"U+2C23">> [] c = "U+2C54" -> <<"U+2C24">>
      [] c = "U+2C55" -> <<"U+2C25">> [] c = "U+2C56" -> <<"U+2C26">>
      [] c = "U+2C57" -> <<"U+2C27">> [] c = "U+2C58" -> <<"U+2C28">>
      [] c = "U+2C59" -> <<"U+2C29">> [] c = "U+2C5A" -> <<"U+2C2A">>
      [] c = "U+2C5B" -> <<"U+2C2B">> [] c = "U+2C5C" -> <<"U+2C2C">>
      [] c = "U+2C5D" -> <<"U+2C2D">> [] c = "U+2C5E" -> <<"U+2C2E">>
      [] c = "U+2C5F" -> <<"U+2C2F">> [] c = "U+2C61" -> <<"U+2C60">>
      [] c = "U+2C65" -> <<"U+023A">> [] c = "U+2C66" -> <<"U+023E">>
      [] c = "U+2C68" -> <<"U+2C67">> [] c = "U+2C6A" -> <<"U+2C69">>
      [] c = "U+2C6C" -> <<"U+2C6B">> [] c = "U+2C73" -> <<"U+2C72">>
      [] c = "U+2C76" -> <<"U+2C75">> [] c = "U+2C81" -> <<"U+2C80">>
      [] c = "U+2C83" -> <<"U+2C82">> [] c = "U+2C85" -> <<"U+2C84">>
      [] c = "U+2C87" -> <<"U+2C86">> [] c = "U+2C89" -> <<"U+2C88">>
      [] c = "U+2C8B" -> <<"U+2C8A">> [] c = "U+2C8D" -> <<"U+2C8C">>
      [] c = "U+2C8F" -> <<"U+2C8E">> [] c = "U+2C91" -> <<"U+2C90">>
      [] c = "U+2C93" -> <<"U+2C92">> [] c = "U+2C95" -> <<"U+2C94">>
      [] c = "U+2C97" -> <<"U+2C96">> [] c = "U+2C99" -> <<"U+2C98">>
      [] c = "U+2C9B" -> <<"U+2C9A">> [] c = "U+2C9D" -> <<"U+2C9C">>
      [] c = "U+2C9F" -> <<"U+2C9E">> [] c = "U+2CA1" -> <<"U+2CA0">>
      [] c = "U+2CA3" -> <<"U+2CA2">> [] c = "U+2CA5" -> <<"U+2CA4">>
      [] c = "U+2CA7" -> <<"U+2CA6">> [] c = "U+2CA9" -> <<"U+2CA8">>
      [] c = "U+2CAB" -> <<"U+2CAA">> [] c = "U+2CAD" -> <<"U+2CAC">>
      [] c = "U+2CAF" -> <<"U+2CAE">> [] c = "U+2CB1" -> <<"U+2CB0">>
      [] c = "U+2CB3" -> <<"U+2CB2">> [] c = "U+2CB5" -> <<"U+2CB4">>
      [] c = "U+2CB7" -> <<"U+2CB6">> [] c = "U+2CB9" -> <<"U+2CB8">>
      [] c = "U+2CBB" -> <<"U+2CBA">> [] c = "U+2CBD" -> <<"U+2CBC">>
      [] c = "U+2CBF" -> <<"U+2CBE">> [] c = "U+2CC1" -> <<"U+2CC0">>
      [] c = "U+2CC3" -> <<"U+2CC2">> [] c = "U+2CC5" -> <<"U+2CC4">>
      [] c = "U+2CC7" -> <<"U+2CC6">> [] c = "U+2CC9" -> <<"U+2CC8">>
      [] c = "U+2CCB" -> <<"U+2CCA">> [] c = "U+2CCD" -> <<"U+2CCC">>
      [] c = "U+2CCF" -> <<"U+2CCE">> [] c = "U+2CD1" -> <<"U+2CD0">>
      [] c = "U+2CD3" -> <<"U+2CD2">> [] c = "U+2CD5" -> <<"U+2CD4">>
      [] c = "U+2CD7" -> <<"U+2CD6">> [] c = "U+2CD9" -> <<"U+2CD8">>
      [] c = "U+2CDB" -> <<"U+2CDA">> [] c = "U+2CDD" -> <<"U+2CDC">>
      [] c = "U+2CDF" -> <<"U+2CDE">> [] c = "U+2CE1" -> <<"U+2CE0">>
      [] c = "U+2CE3" -> <<"U+2CE2">> [] c = "U+2CEC" -> <<"U+2CEB">>
      [] c = "U+2CEE" -> <<"U+2CED">> [] c = "U+2CF3" -> <<"U+2CF2">>
      [] c = "U+2D00" -> <<"U+10A0">> [] c = "U+2D01" -> <<"U+10A1">>
      [] c = "U+2D02" -> <<"U+10A2">> [] c = "U+2D03" -> <<"U+10A3">>
      [] c = "U+2D04" -> <<"U+10A4">> [] c = "U+2D05" -> <<"U+10A5">>
      [] c = "U+2D06" -> <<"U+10A6">> [] c = "U+2D07" -> <<"U+10A7">>
      [] c = "U+2D08" -> <<"U+10A8">> [] c = "U+2D09" -> <<"U+10A9">>
      [] c = "U+2D0A" -> <<"U+10AA">> [] c = "U+2D0B" -> <<"U+10AB">>
      [] c = "U+2D0C" -> <<"U+10AC">> [] c = "U+2D0D" -> <<"U+10AD">>
      [] c = "U+2D0E" -> <<"U+10AE">> [] c = "U+2D0F" -> <<"U+10AF">>
      [] c = "U+2D10" -> <<"U+10B0">> [] c = "U+2D11" -> <<"U+10B1">>
      [] c = "U+2D12" -> <<"U+10B2">> [] c = "U+2D13" -> <<"U+10B3">>
      [] c = "U+2D14" -> <<"U+10B4">> [] c = "U+2D15" -> <<"U+10B5">>
      [] c = "U+2D16" -> <<"U+10B6">> [] c = "U+2D17" -> <<"U+10B7">>
      [] c = "U+2D18" -> <<"U+10B8">> [] c = "U+2D19" -> <<"U+10B9">>
      [] c = "U+2D1A" -> <<"U+10BA">> [] c = "U+2D1B" -> <<"U+10BB">>
      [] c = "U+2D1C" -> <<"U+10BC">> [] c = "U+2D1D" -> <<"U+10BD">>
      [] c = "U+2D1E" -> <<"U+10BE">> [] c = "U+2D1F" -> <<"U+10BF">>
      [] c = "U+2D20" -> <<"U+10C0">> [] c = "U+2D21" -> <<"U+10C1">>
      [] c = "U+2D22" -> <<"U+10C2">> [] c = "U+2D23" -> <<"U+10C3">>
      [] c = "U+2D24" -> <<"U+10C4">> [] c = "U+2D25" -> <<"U+10C5">>
      [] c = "U+2D27" -> <<"U+10C7">> [] c = "U+2D2D" -> <<"U+10CD">>
      [] c = "U+A641" -> <<"U+A640">> [] c = "U+A643" -> <<"U+A642">>
      [] c = "U+A645" -> <<"U+A644">> [] c = "U+A647" -> <<"U+A646">>
      [] c = "U+A649" -> <<"U+A648">> [] c = "U+A64B" -> <<"U+A64A">>
      [] c = "U+A64D" -> <<"U+A64C">> [] c = "U+A64F" -> <<"U+A64E">>
      [] c = "U+A651" -> <<"U+A650">> [] c = "U+A653" -> <<"U+A652">>
      [] c = "U+A655" -> <<"U+A654">> [] c = "U+A657" -> <<"U+A656">>
      [] c = "U+A659" -> <<"U+A658">> [] c = "U+A65B" -> <<"U+A65A">>
      [] c = "U+A65D" -> <<"U+A65C">> [] c = "U+A65F" -> <<"U+A65E">>
      [] c = "U+A661" -> <<"U+A660">> [] c = "U+A663" -> <<"U+A662">>
      [] c = "U+A665" -> <<"U+A664">> [] c = "U+A667" -> <<"U+A666">>
      [] c = "U+A669" -> <<"U+A668">> [] c = "U+A66B" -> <<"U+A66A">>
      [] c = "U+A66D" -> <<"U+A66C">> [] c = "U+A681" -> <<"U+A680">>
      [] c = "U+A683" -> <<"U+A682">> [] c = "U+A685" -> <<"U+A684">>
      [] c = "U+A687" -> <<"U+A686">> [] c = "U+A689" -> <<"U+A688">>
      [] c = "U+A68B" -> <<"U+A68A">> [] c = "U+A68D" -> <<"U+A68C">>
      [] c = "U+A68F" -> <<"U+A68E">> [] c = "U+A691" -> <<"U+A690">>
      [] c = "U+A693" -> <<"U+A692">> [] c = "U+A695" -> <<"U+A694">>
      [] c = "U+A697" -> <<"U+A696">> [] c = "U+A699" -> <<"U+A698">>
      [] c = "U+A69B" -> <<"U+A69A">> [] c = "U+A723" -> <<"U+A722">>
      [] c = "U+A725" -> <<"U+A724">> [] c = "U+A727" -> <<"U+A726">>
      [] c = "U+A729" -> <<"U+A728">> [] c = "U+A72B" -> <<"U+A72A">>
      [] c = "U+A72D" -> <<"U+A72C">> [] c = "U+A72F" -> <<"U+A72E">>
      [] c = "U+A733" -> <<"U+A732">> [] c = "U+A735" -> <<"U+A734">>
      [] c = "U+A737" -> <<"U+A736">> [] c = "U+A739" -> <<"U+A738">>
      [] c = "U+A73B" -> <<"U+A73A">> [] c = "U+A73D" -> <<"U+A73C">>
      [] c = "U+A73F" -> <<"U+A73E">> [] c = "U+A741" -> <<"U+A740">>
      [] c = "U+A743" -> <<"U+A742">> [] c = "U+A745" -> <<"U+A744">>
      [] c = "U+A747" -> <<"U+A746">> [] c = "U+A749" -> <<"U+A748">>
      [] c = "U+A74B" -> <<"U+A74A">> [] c = "U+A74D" -> <<"U+A74C">>
      [] c = "U+A74F" -> <<"U+A74E">> [] c = "U+A751" -> <<"U+A750">>
      [] c = "U+A753" -> <<"U+A752">> [] c = "U+A755" -> <<"U+A754">>
      [] c = "U+A757" -> <<"U+A756">> [] c = "U+A759" -> <<"U+A758">>
      [] c = "U+A75B" -> <<"U+A75A">> [] c = "U+A75D" -> <<"U+A75C">>
      [] c = "U+A75F" -> <<"U+A75E">> [] c = "U+A761" -> <<"U+A760">>
      [] c = "U+A763" -> <<"U+A762">> [] c = "U+A765" -> <<"U+A764">>
      [] c = "U+A767" -> <<"U+A766">> [] c = "U+A769" -> <<"U+A768">>
      [] c = "U+A76B" -> <<"U+A76A">> [] c = "U+A76D" -> <<"U+A76C">>
      [] c = "U+A76F" -> <<"U+A76E">> [] c = "U+A77A" -> <<"U+A779">>
      [] c = "U+A77C" -> <<"U+A77B">> [] c = "U+A77F" -> <<"U+A77E">>
      [] c = "U+A781" -> <<"U+A780">> [] c = "U+A783" -> <<"U+A782">>
      [] c = "U+A785" -> <<"U+A784">> [] c = "U+A787" -> <<"U+A786">>
      [] c = "U+A78C" -> <<"U+A78B">> [] c = "U+A791" -> <<"U+A790">>
      [] c = "U+A793" -> <<"U+A792">> [] c = "U+A794" -> <<"U+A7C4">>
      [] c = "U+A797" -> <<"U+A796">> [] c = "U+A799" -> <<"U+A798">>
      [] c = "U+A79B" -> <<"U+A79A">> [] c = "U+A79D" -> <<"U+A79C">>
      [] c = "U+A79F" -> <<"U+A79E">> [] c = "U+A7A1" -> <<"U+A7A0">>
      [] c = "U+A7A3" -> <<"U+A7A2">> [] c = "U+A7A5" -> <<"U+A7A4">>
      [] c = "U+A7A7" -> <<"U+A7A6">> [] c = "U+A7A9" -> <<"U+A7A8">>
      [] c = "U+A7B5" -> <<"U+A7B4">> [] c = "U+A7B7" -> <<"U+A7B6">>
      [] c = "U+A7B9" -> <<"U+A7B8">> [] c = "U+A7BB" -> <<"U+A7BA">>
      [] c = "U+A7BD" -> <<"U+A7BC">> [] c = "U+A7BF" -> <<"U+A7BE">>
      [] c = "U+A7C1" -> <<"U+A7C0">> [] c = "U+A7C3" -> <<"U+A7C2">>
      [] c = "U+A7C8" -> <<"U+A7C7">> [] c = "U+A7CA" -> <<"U+A7C9">>
      [] c = "U+A7D1" -> <<"U+A7D0">> [] c = "U+A7D7" -> <<"U+A7D6">>
      [] c = "U+A7D9" -> <<"U+A7D8">> [] c = "U+A7F6" -> <<"U+A7F5">>
      [] c = "U+AB53" -> <<"U+A7B3">> [] c = "U+AB70" -> <<"U+13A0">>
      [] c = "U+AB71" -> <<"U+13A1">> [] c = "U+AB72" -> <<"U+13A2">>
      [] c = "U+AB73" -> <<"U+13A3">> [] c = "U+AB74" -> <<"U+13A4">>
      [] c = "U+AB75" -> <<"U+13A5">> [] c = "U+AB76" -> <<"U+13A6">>
      [] c = "U+AB77" -> <<"U+13A7">> [] c = "U+AB78" -> <<"U+13A8">>
      [] c = "U+AB79" -> <<"U+13A9">> [] c = "U+AB7A" -> <<"U+13AA">>
      [] c = "U+AB7B" -> <<"U+13AB">> [] c = "U+AB7C" -> <<"U+13AC">>
      [] c = "U+AB7D" -> <<"U+13AD">> [] c = "U+AB7E" -> <<"U+13AE">>
      [] c = "U+AB7F" -> <<"U+13AF">> [] c = "U+AB80" -> <<"U+13B0">>
      [] c = "U+AB81" -> <<"U+13B1">> [] c = "U+AB82" -> <<"U+13B2">>
      [] c = "U+AB83" -> <<"U+13B3">> [] c = "U+AB84" -> <<"U+13B4">>
      [] c = "U+AB85" -> <<"U+13B5">> [] c = "U+AB86" -> <<"U+13B6">>
      [] c = "U+AB87" -> <<"U+13B7">> [] c = "U+AB88" -> <<"U+13B8">>
      [] c = "U+AB89" -> <<"U+13B9">> [] c = "U+AB8A" -> <<"U+13BA">>
      [] c = "U+AB8B" -> <<"U+13BB">> [] c = "U+AB8C" -> <<"U+13BC">>
      [] c = "U+AB8D" -> <<"U+13BD">> [] c = "U+AB8E" -> <<"U+13BE">>
      [] c = "U+AB8F" -> <<"U+13BF">> [] c = "U+AB90" -> <<"U+13C0">>
      [] c = "U+AB91" -> <<"U+13C1">> [] c = "U+AB92" -> <<"U+13C2">>
      [] c = "U+AB93" -> <<"U+13C3">> [] c = "U+AB94" -> <<"U+13C4">>
      [] c = "U+AB95" -> <<"U+13C5">> [] c = "U+AB96" -> <<"U+13C6">>
      [] c = "U+AB97" -> <<"U+13C7">> [] c = "U+AB98" -> <<"U+13C8">>
      [] c = "U+AB99" -> <<"U+13C9">> [] c = "U+AB9A" -> <<"U+13CA">>
      [] c = "U+AB9B" -> <<"U+13CB">> [] c = "U+AB9C" -> <<"U+13CC">>
      [] c = "U+AB9D" -> <<"U+13CD">> [] c = "U+AB9E" -> <<"U+13CE">>
      [] c = "U+AB9F" -> <<"U+13CF">> [] c = "U+ABA0" -> <<"U+13D0">>
      [] c = "U+ABA1" -> <<"U+13D1">> [] c = "U+ABA2" -> <<"U+13D2">>
      [] c = "U+ABA3" -> <<"U+13D3">> [] c = "U+ABA4" -> <<"U+13D4">>
      [] c = "U+ABA5" -> <<"U+13D5">> [] c = "U+ABA6" -> <<"U+13D6">>
      [] c = "U+ABA7" -> <<"U+13D7">> [] c = "U+ABA8" -> <<"U+13D8">>
      [] c = "U+ABA9" -> <<"U+13D9">> [] c = "U+ABAA" -> <<"U+13DA">>
      [] c = "U+ABAB" -> <<"U+13DB">> [] c = "U+ABAC" -> <<"U+13DC">>
      [] c = "U+ABAD" -> <<"U+13DD">> [] c = "U+ABAE" -> <<"U+13DE">>
      [] c = "U+ABAF" -> <<"U+13DF">> [] c = "U+ABB0" -> <<"U+13E0">>
      [] c = "U+ABB1" -> <<"U+13E1">> [] c = "U+ABB2" -> <<"U+13E2">>
      [] c = "U+ABB3" -> <<"U+13E3">> [] c = "U+ABB4" -> <<"U+13E4">>
      [] c = "U+ABB5" -> <<"U+13E5">> [] c = "U+ABB6" -> <<"U+13E6">>
      [] c = "U+ABB7" -> <<"U+13E7">> [] c = "U+ABB8" -> <<"U+13E8">>
      [] c = "U+ABB9" -> <<"U+13E9">> [] c = "U+ABBA" -> <<"U+13EA">>
      [] c = "U+ABBB" -> <<"U+13EB">> [] c = "U+ABBC" -> <<"U+13EC">>
      [] c = "U+ABBD" -> <<"U+13ED">> [] c = "U+ABBE" -> <<"U+13EE">>
      [] c = "U+ABBF" -> <<"U+13EF">> [] c = "U+FB00" -> <<"F", "F">>
      [] c = "U+FB01" -> <<"F", "I">> [] c = "U+FB02" -> <<"F", "L">>
      [] c = "U+FB03" -> <<"F", "F", "I">> [] c = "U+FB04" -> <<"F", "F", "L">>
      [] c = "U+FB05" -> <<"S", "T">> [] c = "U+FB06" -> <<"S", "T">>
      [] c = "U+FB13" -> <<"U+0544", "U+0546">> [] c = "U+FB14" -> <<"U+0544", "U+0535">>
      [] c = "U+FB15" -> <<"U+0544", "U+053B">> [] c = "U+FB16" -> <<"U+054E", "U+0546">>
      [] c = "U+FB17" -> <<"U+0544", "U+053D">> [] c = "U+FF41" -> <<"U+FF21">>
      [] c = "U+FF42" -> <<"U+FF22">> [] c = "U+FF43" -> <<"U+FF23">>
      [] c = "U+FF44" -> <<"U+FF24">> [] c = "U+FF45" -> <<"U+FF25">>
      [] c = "U+FF46" -> <<"U+FF26">> [] c = "U+FF47" -> <<"U+FF27">>
      [] c = "U+FF48" -> <<"U+FF28">> [] c = "U+FF49" -> <<"U+FF29">>
      [] c = "U+FF4A" -> <<"U+FF2A">> [] c = "U+FF4B" -> <<"U+FF2B">>
      [] c = "U+FF4C" -> <<"U+FF2C">> [] c = "U+FF4D" -> <<"U+FF2D">>
      [] c = "U+FF4E" -> <<"U+FF2E">> [] c = "U+FF4F" -> <<"U+FF2F">>
      [] c = "U+FF50" -> <<"U+FF30">> [] c = "U+FF51" -> <<"U+FF31">>
      [] c = "U+FF52" -> <<"U+FF32">> [] c = "U+FF53" -> <<"U+FF33">>
      [] c = "U+FF54" -> <<"U+FF34">> [] c = "U+FF55" -> <<"U+FF35">>
      [] c = "U+FF56" -> <<"U+FF36">> [] c = "U+FF57" -> <<"U+FF37">>
      [] c = "U+FF58" -> <<"U+FF38">> [] c = "U+FF59" -> <<"U+FF39">>
      [] c = "U+FF5A" -> <<"U+FF3A">> [] c = "U+10428" -> <<"U+10400">>
      [] c = "U+10429" -> <<"U+10401">> [] c = "U+1042A" -> <<"U+10402">>
      [] c = "U+1042B" -> <<"U+10403">> [] c = "U+1042C" -> <<"U+10404">>
      [] c = "U+1042D" -> <<"U+10405">> [] c = "U+1042E" -> <<"U+10406">>
      [] c = "U+1042F" -> <<"U+10407">> [] c = "U+10430" -> <<"U+10408">>
      [] c = "U+10431" -> <<"U+10409">> [] c = "U+10432" -> <<"U+1040A">>
      [] c = "U+10433" -> <<"U+1040B">> [] c = "U+10434" -> <<"U+1040C">>
      [] c = "U+10435" -> <<"U+1040D">> [] c = "U+10436" -> <<"U+1040E">>
      [] c = "U+10437" -> <<"U+1040F">> [] c = "U+10438" -> <<"U+10410">>
      [] c = "U+10439" -> <<"U+10411">> [] c = "U+1043A" -> <<"U+10412">>
      [] c = "U+1043B" -> <<"U+10413">> [] c = "U+1043C" -> <<"U+10414">>
      [] c = "U+1043D" -> <<"U+10415">> [] c = "U+1043E" -> <<"U+10416">>
      [] c = "U+1043F" -> <<"U+10417">> [] c = "U+10440" -> <<"U+10418">>
      [] c = "U+10441" -> <<"U+10419">> [] c = "U+10442" -> <<"U+1041A">>
      [] c = "U+10443" -> <<"U+1041B">> [] c = "U+10444" -> <<"U+1041C">>
      [] c = "U+10445" -> <<"U+1041D">> [] c = "U+10446" -> <<"U+1041E">>
      [] c = "U+10447" -> <<"U+1041F">> [] c = "U+10448" -> <<"U+10420">>
      [] c = "U+10449" -> <<"U+10421">> [] c = "U+1044A" -> <<"U+10422">>
      [] c = "U+1044B" -> <<"U+10423">> [] c = "U+1044C" -> <<"U+10424">>
      [] c = "U+1044D" -> <<"U+10425">> [] c = "U+1044E" -> <<"U+10426">>
      [] c = "U+1044F" -> <<"U+10427">> [] c = "U+104D8" -> <<"U+104B0">>
      [] c = "U+104D9" -> <<"U+104B1">> [] c = "U+104DA" -> <<"U+104B2">>
      [] c = "U+104DB" -> <<"U+104B3">> [] c = "U+104DC" -> <<"U+104B4">>
      [] c = "U+104DD" -> <<"U+104B5">> [] c = "U+104DE" -> <<"U+104B6">>
      [] c = "U+104DF" -> <<"U+104B7">> [] c = "U+104E0" -> <<"U+104B8">>
      [] c = "U+104E1" -> <<"U+104B9">> [] c = "U+104E2" -> <<"U+104BA">>
      [] c = "U+104E3" -> <<"U+104BB">> [] c = "U+104E4" -> <<"U+104BC">>
      [] c = "U+104E5" -> <<"U+104BD">> [] c = "U+104E6" -> <<"U+104BE">>
      [] c = "U+104E7" -> <<"U+104BF">> [] c = "U+104E8" -> <<"U+104C0">>
      [] c = "U+104E9" -> <<"U+104C1">> [] c = "U+104EA" -> <<"U+104C2">>
      [] c = "U+104EB" -> <<"U+104C3">> [] c = "U+104EC" -> <<"U+104C4">>
      [] c = "U+104ED" -> <<"U+104C5">> [] c = "U+104EE" -> <<"U+104C6">>
      [] c = "U+104EF" -> <<"U+104C7">> [] c = "U+104F0" -> <<"U+104C8">>
      [] c = "U+104F1" -> <<"U+104C9">> [] c = "U+104F2" -> <<"U+104CA">>
      [] c = "U+104F3" -> <<"U+104CB">> [] c = "U+104F4" -> <<"U+104CC">>
      [] c = "U+104F5" -> <<"U+104CD">> [] c = "U+104F6" -> <<"U+104CE">>
      [] c = "U+104F7" -> <<"U+104CF">> [] c = "U+104F8" -> <<"U+104D0">>
      [] c = "U+104F9" -> <<"U+104D1">> [] c = "U+104FA" -> <<"U+104D2">>
      [] c = "U+104FB" -> <<"U+104D3">> [] c = "U+10597" -> <<"U+10570">>
      [] c = "U+10598" -> <<"U+10571">> [] c = "U+10599" -> <<"U+10572">>
      [] c = "U+1059A" -> <<"U+10573">> [] c = "U+1059B" -> <<"U+10574">>
      [] c = "U+1059C" -> <<"U+10575">> [] c = "U+1059D" -> <<"U+10576">>
      [] c = "U+1059E" -> <<"U+10577">> [] c = "U+1059F" -> <<"U+10578">>
      [] c = "U+105A0" -> <<"U+10579">> [] c = "U+105A1" -> <<"U+1057A">>
      [] c = "U+105A3" -> <<"U+1057C">> [] c = "U+105A4" -> <<"U+1057D">>
      [] c = "U+105A5" -> <<"U+1057E">> [] c = "U+105A6" -> <<"U+1057F">>
      [] c = "U+105A7" -> <<"U+10580">> [] c = "U+105A8" -> <<"U+10581">>
      [] c = "U+105A9" -> <<"U+10582">> [] c = "U+105AA" -> <<"U+10583">>
      [] c = "U+105AB" -> <<"U+10584">> [] c = "U+105AC" -> <<"U+10585">>
      [] c = "U+105AD" -> <<"U+10586">> [] c = "U+105AE" -> <<"U+10587">>
      [] c = "U+105AF" -> <<"U+10588">> [] c = "U+105B0" -> <<"U+10589">>
      [] c = "U+105B1" -> <<"U+1058A">> [] c = "U+105B3" -> <<"U+1058C">>
      [] c = "U+105B4" -> <<"U+1058D">> [] c = "U+105B5" -> <<"U+1058E">>
      [] c = "U+105B6" -> <<"U+1058F">> [] c = "U+105B7" -> <<"U+10590">>
      [] c = "U+105B8" -> <<"U+10591">> [] c = "U+105B9" -> <<"U+10592">>
      [] c = "U+105BB" -> <<"U+10594">> [] c = "U+105BC" -> <<"U+10595">>
      [] c = "U+10CC0" -> <<"U+10C80">> [] c = "U+10CC1" -> <<"U+10C81">>
      [] c = "U+10CC2" -> <<"U+10C82">> [] c = "U+10CC3" -> <<"U+10C83">>
      [] c = "U+10CC4" -> <<"U+10C84">> [] c = "U+10CC5" -> <<"U+10C85">>
      [] c = "U+10CC6" -> <<"U+10C86">> [] c = "U+10CC7" -> <<"U+10C87">>
      [] c = "U+10CC8" -> <<"U+10C88">> [] c = "U+10CC9" -> <<"U+10C89">>
      [] c = "U+10CCA" -> <<"U+10C8A">> [] c = "U+10CCB" -> <<"U+10C8B">>
      [] c = "U+10CCC" -> <<"U+10C8C">> [] c = "U+10CCD" -> <<"U+10C8D">>
      [] c = "U+10CCE" -> <<"U+10C8E">> [] c = "U+10CCF" -> <<"U+10C8F">>
      [] c = "U+10CD0" -> <<"U+10C90">> [] c = "U+10CD1" -> <<"U+10C91">>
      [] c = "U+10CD2" -> <<"U+10C92">> [] c = "U+10CD3" -> <<"U+10C93">>
      [] c = "U+10CD4" -> <<"U+10C94">> [] c = "U+10CD5" -> <<"U+10C95">>
      [] c = "U+10CD6" -> <<"U+10C96">> [] c = "U+10CD7" -> <<"U+10C97">>
      [] c = "U+10CD8" -> <<"U+10C98">> [] c = "U+10CD9" -> <<"U+10C99">>
      [] c = "U+10CDA" -> <<"U+10C9A">> [] c = "U+10CDB" -> <<"U+10C9B">>
      [] c = "U+10CDC" -> <<"U+10C9C">> [] c = "U+10CDD" -> <<"U+10C9D">>
      [] c = "U+10CDE" -> <<"U+10C9E">> [] c = "U+10CDF" -> <<"U+10C9F">>
      [] c = "U+10CE0" -> <<"U+10CA0">> [] c = "U+10CE1" -> <<"U+10CA1">>
      [] c = "U+10CE2" -> <<"U+10CA2">> [] c = "U+10CE3" -> <<"U+10CA3">>
      [] c = "U+10CE4" -> <<"U+10CA4">> [] c = "U+10CE5" -> <<"U+10CA5">>
      [] c = "U+10CE6" -> <<"U+10CA6">> [] c = "U+10CE7" -> <<"U+10CA7">>
      [] c = "U+10CE8" -> <<"U+10CA8">> [] c = "U+10CE9" -> <<"U+10CA9">>
      [] c = "U+10CEA" -> <<"U+10CAA">> [] c = "U+10CEB" -> <<"U+10CAB">>
      [] c = "U+10CEC" -> <<"U+10CAC">> [] c = "U+10CED" -> <<"U+10CAD">>
      [] c = "U+10CEE" -> <<"U+10CAE">> [] c = "U+10CEF" -> <<"U+10CAF">>
      [] c = "U+10CF0" -> <<"U+10CB0">> [] c = "U+10CF1" -> <<"U+10CB1">>
      [] c = "U+10CF2" -> <<"U+10CB2">> [] c = "U+118C0" -> <<"U+118A0">>
      [] c = "U+118C1" -> <<"U+118A1">> [] c = "U+118C2" -> <<"U+118A2">>
      [] c = "U+118C3" -> <<"U+118A3">> [] c = "U+118C4" -> <<"U+118A4">>
      [] c = "U+118C5" -> <<"U+118A5">> [] c = "U+118C6" -> <<"U+118A6">>
      [] c = "U+118C7" -> <<"U+118A7">> [] c = "U+118C8" -> <<"U+118A8">>
      [] c = "U+118C9" -> <<"U+118A9">> [] c = "U+118CA" -> <<"U+118AA">>
      [] c = "U+118CB" -> <<"U+118AB">> [] c = "U+118CC" -> <<"U+118AC">>
      [] c = "U+118CD" -> <<"U+118AD">> [] c = "U+118CE" -> <<"U+118AE">>
      [] c = "U+118CF" -> <<"U+118AF">> [] c = "U+118D0" -> <<"U+118B0">>
      [] c = "U+118D1" -> <<"U+118B1">> [] c = "U+118D2" -> <<"U+118B2">>
      [] c = "U+118D3" -> <<"U+118B3">> [] c = "U+118D4" -> <<"U+118B4">>
      [] c = "U+118D5" -> <<"U+118B5">> [] c = "U+118D6" -> <<"U+118B6">>
      [] c = "U+118D7" -> <<"U+118B7">> [] c = "U+118D8" -> <<"U+118B8">>
      [] c = "U+118D9" -> <<"U+118B9">> [] c = "U+118DA" -> <<"U+118BA">>
      [] c = "U+118DB" -> <<"U+118BB">> [] c = "U+118DC" -> <<"U+118BC">>
      [] c = "U+118DD" -> <<"U+118BD">> [] c = "U+118DE" -> <<"U+118BE">>
      [] c = "U+118DF" -> <<"U+118BF">> [] c = "U+16E60" -> <<"U+16E40">>
      [] c = "U+16E61" -> <<"U+16E41">> [] c = "U+16E62" -> <<"U+16E42">>
      [] c = "U+16E63" -> <<"U+16E43">> [] c = "U+16E64" -> <<"U+16E44">>
      [] c = "U+16E65" -> <<"U+16E45">> [] c = "U+16E66" -> <<"U+16E46">>
      [] c = "U+16E67" -> <<"U+16E47">> [] c = "U+16E68" -> <<"U+16E48">>
      [] c = "U+16E69" -> <<"U+16E49">> [] c = "U+16E6A" -> <<"U+16E4A">>
      [] c = "U+16E6B" -> <<"U+16E4B">> [] c = "U+16E6C" -> <<"U+16E4C">>
      [] c = "U+16E6D" -> <<"U+16E4D">> [] c = "U+16E6E" -> <<"U+16E4E">>
      [] c = "U+16E6F" -> <<"U+16E4F">> [] c = "U+16E70" -> <<"U+16E50">>
      [] c = "U+16E71" -> <<"U+16E51">> [] c = "U+16E72" -> <<"U+16E52">>
      [] c = "U+16E73" -> <<"U+16E53">> [] c = "U+16E74" -> <<"U+16E54">>
      [] c = "U+16E75" -> <<"U+16E55">> [] c = "U+16E76" -> <<"U+16E56">>
      [] c = "U+16E77" -> <<"U+16E57">> [] c = "U+16E78" -> <<"U+16E58">>
      [] c = "U+16E79" -> <<"U+16E59">> [] c = "U+16E7A" -> <<"U+16E5A">>
      [] c = "U+16E7B" -> <<"U+16E5B">> [] c = "U+16E7C" -> <<"U+16E5C">>
      [] c = "U+16E7D" -> <<"U+16E5D">> [] c = "U+16E7E" -> <<"U+16E5E">>
      [] c = "U+16E7F" -> <<"U+16E5F">> [] c = "U+1E922" -> <<"U+1E900">>
      [] c = "U+1E923" -> <<"U+1E901">> [] c = "U+1E924" -> <<"U+1E902">>
      [] c = "U+1E925" -> <<"U+1E903">> [] c = "U+1E926" -> <<"U+1E904">>
      [] c = "U+1E927" -> <<"U+1E905">> [] c = "U+1E928" -> <<"U+1E906">>
      [] c = "U+1E929" -> <<"U+1E907">> [] c = "U+1E92A" -> <<"U+1E908">>
      [] c = "U+1E92B" -> <<"U+1E909">> [] c = "U+1E92C" -> <<"U+1E90A">>
      [] c = "U+1E92D" -> <<"U+1E90B">> [] c = "U+1E92E" -> <<"U+1E90C">>
      [] c = "U+1E92F" -> <<"U+1E90D">> [] c = "U+1E930" -> <<"U+1E90E">>
      [] c = "U+1E931" -> <<"U+1E90F">> [] c = "U+1E932" -> <<"U+1E910">>
      [] c = "U+1E933" -> <<"U+1E911">> [] c = "U+1E934" -> <<"U+1E912">>
      [] c = "U+1E935" -> <<"U+1E913">> [] c = "U+1E936" -> <<"U+1E914">>
      [] c = "U+1E937" -> <<"U+1E915">> [] c = "U+1E938" -> <<"U+1E916">>
      [] c = "U+1E939" -> <<"U+1E917">> [] c = "U+1E93A" -> <<"U+1E918">>
      [] c = "U+1E93B" -> <<"U+1E919">> [] c = "U+1E93C" -> <<"U+1E91A">>
      [] c = "U+1E93D" -> <<"U+1E91B">> [] c = "U+1E93E" -> <<"U+1E91C">>
      [] c = "U+1E93F" -> <<"U+1E91D">> [] c = "U+1E940" -> <<"U+1E91E">>
      [] c = "U+1E941" -> <<"U+1E91F">> [] c = "U+1E942" -> <<"U+1E920">>
      [] c = "U+1E943" -> <<"U+1E921">>
      [] OTHER -> <<c>>

\* c.upper() for one character: a sequence of one or more characters
UpperChar(c) == IF c \in AsciiSinCambio THEN <<c>> ELSE UpperTabla(c)

\* s.upper(): the characters converted one by one, in order
RECURSIVE Upper(_)
Upper(s) == IF s = << >> THEN << >> ELSE UpperChar(Head(s)) \o Upper(Tail(s))

\* s and t are the same tag for the code: equal after upper()
IgualSinCaja(s, t) == Upper(s) = Upper(t)

\* the tag names one of the three channels, ignoring letter case
TagValido(t) == \E c \in {T_email, T_sms, T_push} : IgualSinCaja(t, c)

----------------------------------------------------------------------------
(* Exceptions and events *)

NoExc == [tipo |-> "None", arg |-> << >>]
ValueError(arg) == [tipo |-> "ValueError", arg |-> arg]

NoRet == "None"

Ev(evento, canal, quien, tag, texto) ==
    [evento |-> evento, canal |-> canal, quien |-> quien, tag |-> tag, texto |-> texto]

\* <Sender>.enviar(mensaje, destino): one printed delivery line
enviar(canal, mensaje, destino) == Ev("envio", canal, destino, << >>, mensaje)

----------------------------------------------------------------------------
(* NotificacionFactory *)

\* tipo = tipo.upper() (Elegir's t), then the if/elif chain
crearNotificacion(tipo) ==
    LET Elegir(t) ==
           IF t = T_EMAIL THEN [ret |-> "EMAIL", exc |-> NoExc]
           ELSE IF t = T_SMS THEN [ret |-> "SMS", exc |-> NoExc]
           ELSE IF t = T_PUSH THEN [ret |-> "PUSH", exc |-> NoExc]
           ELSE [ret |-> NoRet, exc |-> ValueError(t)]
    IN Elegir(Upper(tipo))

----------------------------------------------------------------------------
(* Usuario *)

CamposConstructor == {"nombre", "email", "telefono", "metodo_notif"}

Usuario(nombre, email, telefono, metodo_notif) ==
    [nombre |-> nombre, email |-> email, telefono |-> telefono,
     metodo_notif |-> Upper(metodo_notif)]

\* mutation: SMS is addressed to the e-mail address
Destino_smsAEmail(u) ==
    IF u.metodo_notif = T_EMAIL THEN u.email
    ELSE IF u.metodo_notif = T_SMS THEN u.email
    ELSE IF u.metodo_notif = T_PUSH THEN u.nombre
    ELSE ""

Destino(u) ==
    IF u.metodo_notif = T_EMAIL THEN u.email
    ELSE IF u.metodo_notif = T_SMS THEN u.telefono
    ELSE IF u.metodo_notif = T_PUSH THEN u.nombre
    ELSE ""

\* f"¡Hola {self.nombre}! {mensaje}", kept as its four parts
Saludo(nombre, mensaje) == <<"¡Hola ", nombre, "! ", mensaje>>

\* mutation: the ValueError of the factory is not caught
actualizar_sinExcept(u, mensaje) ==
    LET Tras(r) ==
           IF r.exc.tipo = "ValueError"
           THEN [salida |-> << >>, exc |-> r.exc]
           ELSE [salida |-> <<enviar(r.ret, Saludo(u.nombre, mensaje), Destino(u))>>,
                 exc |-> NoExc]
    IN Tras(crearNotificacion(u.metodo_notif))

\* Usuario.actualizar: the events it prints and the exception that leaves it
\* (Tras's r is the outcome of factory.crearNotificacion(self.metodo_notif))
actualizar(u, mensaje) ==
    LET Tras(r) ==
           IF r.exc.tipo = "ValueError"
           THEN [salida |-> <<Ev("error", NoRet, u.nombre, r.exc.arg, << >>)>>,
                 exc |-> NoExc]
           ELSE [salida |-> <<enviar(r.ret, Saludo(u.nombre, mensaje), Destino(u))>>,
                 exc |-> NoExc]
    IN Tras(crearNotificacion(u.metodo_notif))

----------------------------------------------------------------------------
(* NotificacionSystem *)

\* mutation: Usuario gets a field-wise __eq__
UsuarioEq_porCampos(us, a, b) == us[a] = us[b]

\* a == b on Usuario objects: the class defines no __eq__, so identity
UsuarioEq(us, a, b) == a = b

\* x in lista
Contiene(us, lista, x) == \E i \in 1..Len(lista) : UsuarioEq(us, lista[i], x)

\* lista.remove(x): drops the first element equal to x, ValueError if none
ListRemove(us, lista, x) ==
    IF Contiene(us, lista, x)
    THEN LET k == CHOOSE i \in 1..Len(lista) :
                     /\ UsuarioEq(us, lista[i], x)
                     /\ \A j \in 1..(i-1) : ~UsuarioEq(us, lista[j], x)
         IN [lista |-> SubSeq(lista, 1, k-1) \o SubSeq(lista, k+1, Len(lista)),
             exc |-> NoExc]
    ELSE [lista |-> lista, exc |-> ValueError(<<"x not in list">>)]

\* mutation: no membership test before the append
agregarObservador_sinComprobar(us, lista, o) ==
    [lista |-> Append(lista, o),
     salida |-> <<Ev("suscripcion", NoRet, us[o].nombre, us[o].metodo_notif, << >>)>>,
     exc |-> NoExc]

\* mutation: a new observer is put at the head of the list
agregarObservador_alFrente(us, lista, o) ==
    IF ~Contiene(us, lista, o)
    THEN [lista |-> <<o>> \o lista,
          salida |-> <<Ev("suscripcion", NoRet, us[o].nombre, us[o].metodo_notif, << >>)>>,
          exc |-> NoExc]
    ELSE [lista |-> lista, salida |-> << >>, exc |-> NoExc]

agregarObservador(us, lista, o) ==
    IF ~Contiene(us, lista, o)
    THEN [lista |-> Append(lista, o),
          salida |-> <<Ev("suscripcion", NoRet, us[o].nombre, us[o].metodo_notif, << >>)>>,
          exc |-> NoExc]
    ELSE [lista |-> lista, salida |-> << >>, exc |-> NoExc]

\* mutation: the ValueError of list.remove is not caught
eliminarObservador_sinExcept(us, lista, o) ==
    LET r == ListRemove(us, lista, o) IN
    IF r.exc.tipo = "ValueError"
    THEN [lista |-> lista, salida |-> << >>, exc |-> r.exc]
    ELSE [lista |-> r.lista,
          salida |-> <<Ev("baja", NoRet, us[o].nombre, us[o].metodo_notif, << >>)>>,
          exc |-> NoExc]

eliminarObservador(us, lista, o) ==
    LET r == ListRemove(us, lista, o) IN
    IF r.exc.tipo = "ValueError"
    THEN [lista |-> lista,
          salida |-> <<Ev("no_suscrito", NoRet, us[o].nombre, us[o].metodo_notif, << >>)>>,
          exc |-> NoExc]
    ELSE [lista |-> r.lista,
          salida |-> <<Ev("baja", NoRet, us[o].nombre, us[o].metodo_notif, << >>)>>,
          exc |-> NoExc]

\* one call observador.actualizar(mensaje)
Llamada(o, mensaje) == [obj |-> o, mensaje |-> mensaje]

\* the for loop of notificarObservadores over lista[i..]; an exception ends it
RECURSIVE Bucle(_, _, _, _)
Bucle(us, lista, i, mensaje) ==
    IF i > Len(lista)
    THEN [salida |-> << >>, llamadas |-> << >>, exc |-> NoExc]
    ELSE LET Seguir(r, resto) ==
                 [salida |-> r.salida \o resto.salida,
                  llamadas |-> <<Llamada(lista[i], mensaje)>> \o resto.llamadas,
                  exc |-> resto.exc]
             Paso(r) ==
                 IF r.exc.tipo # "None"
                 THEN [salida |-> r.salida, llamadas |-> <<Llamada(lista[i], mensaje)>>,
                       exc |-> r.exc]
                 ELSE Seguir(r, Bucle(us, lista, i + 1, mensaje))
         IN Paso(actualizar(us[lista[i]], mensaje))

\* mutation: the loop starts at the second observer
notificarObservadores_saltaPrimero(us, lista, mensaje) ==
    IF lista = << >>
    THEN [salida |-> <<Ev("inicio", NoRet, "", << >>, <<mensaje>>),
                       Ev("vacio", NoRet, "", << >>, << >>)>>,
          llamadas |-> << >>, exc |-> NoExc]
    ELSE LET Tras(b) ==
                 [salida |-> <<Ev("inicio", NoRet, "", << >>, <<mensaje>>)>> \o b.salida
                             \o (IF b.exc.tipo = "None"
                                 THEN <<Ev("fin", NoRet, "", << >>, << >>)>> ELSE << >>),
                  llamadas |-> b.llamadas, exc |-> b.exc]
         IN Tras(Bucle(us, lista, 2, mensaje))

notificarObservadores(us, lista, mensaje) ==
    IF lista = << >>
    THEN [salida |-> <<Ev("inicio", NoRet, "", << >>, <<mensaje>>),
                       Ev("vacio", NoRet, "", << >>, << >>)>>,
          llamadas |-> << >>, exc |-> NoExc]
    ELSE LET Tras(b) ==
                 [salida |-> <<Ev("inicio", NoRet, "", << >>, <<mensaje>>)>> \o b.salida
                             \o (IF b.exc.tipo = "None"
                                 THEN <<Ev("fin", NoRet, "", << >>, << >>)>> ELSE << >>),
                  llamadas |-> b.llamadas, exc |-> b.exc]
         IN Tras(Bucle(us, lista, 1, mensaje))

----------------------------------------------------------------------------
(* State machine of the subject *)

Op(op, obj, tag, mensaje) == [op |-> op, obj |-> obj, tag |-> tag, mensaje |-> mensaje]

Quitar(s, x) == SelectSeq(s, LAMBDA y : y # x)

Init ==
    /\ usuarios = << >>
    /\ observadores = << >>
    /\ salida = << >>
    /\ llamadas = << >>
    /\ excepcion = NoExc
    /\ retorno = NoRet
    /\ ultima = Op("init", 0, << >>, "")
    /\ previos = << >>
    /\ registro = << >>
    /\ tagsDados = << >>

\* user = Usuario(nombre, email, telefono, metodo_notif)
NuevoUsuario(nombres, emails, telefonos, tags) ==
    /\ Len(usuarios) < MaxObjs
    /\ \E n \in nombres, e \in emails, t \in telefonos, m \in tags :
          /\ usuarios' = Append(usuarios, Usuario(n, e, t, m))
          /\ tagsDados' = Append(tagsDados, m)
          /\ ultima' = Op("Usuario", Len(usuarios) + 1, m, "")
    /\ salida' = << >>
    /\ llamadas' = << >>
    /\ excepcion' = NoExc
    /\ retorno' = NoRet
    /\ previos' = observadores
    /\ UNCHANGED <<observadores, registro>>

\* sistema.agregarObservador(o)
Agregar ==
    \E o \in 1..Len(usuarios) :
       LET r == agregarObservador(usuarios, observadores, o) IN
       /\ observadores' = r.lista
       /\ salida' = r.salida
       /\ excepcion' = r.exc
       /\ llamadas' = << >>
       /\ retorno' = NoRet
       /\ ultima' = Op("agregar", o, << >>, "")
       /\ previos' = observadores
       /\ registro' = IF \E i \in 1..Len(observadores) : observadores[i] = o
                      THEN registro
                      ELSE Append(Quitar(registro, o), o)
       /\ UNCHANGED <<usuarios, tagsDados>>

\* sistema.eliminarObservador(o)
Eliminar ==
    \E o \in 1..Len(usuarios) :
       LET r == eliminarObservador(usuarios, observadores, o) IN
       /\ observadores' = r.lista
       /\ salida' = r.salida
       /\ excepcion' = r.exc
       /\ llamadas' = << >>
       /\ retorno' = NoRet
       /\ ultima' = Op("eliminar", o, << >>, "")
       /\ previos' = observadores
       /\ UNCHANGED <<usuarios, registro, tagsDados>>

\* sistema.notificarObservadores(m)
Notificar ==
    \E m \in Mensajes :
       \E r \in {notificarObservadores(usuarios, observadores, m)} :
       /\ salida' = r.salida
       /\ llamadas' = r.llamadas
       /\ excepcion' = r.exc
       /\ retorno' = NoRet
       /\ ultima' = Op("notificar", 0, << >>, m)
       /\ previos' = observadores
       /\ UNCHANGED <<usuarios, observadores, registro, tagsDados>>

Next ==
    \/ NuevoUsuario(HubNombres, {"alice@corp.com"}, {"555-1001"}, HubTags)
    \/ Agregar
    \/ Eliminar
    \/ Notificar

Spec == Init /\ [][Next]_vars

----------------------------------------------------------------------------
(* State machine of one subscriber and the factory *)

InitUsuario ==
    /\ \E n \in Nombres, e \in Emails, t \in Telefonos, m \in Tags :
          /\ usuarios = <<Usuario(n, e, t, m)>>
          /\ tagsDados = <<m>>
          /\ ultima = Op("Usuario", 1, m, "")
    /\ observadores = << >>
    /\ salida = << >>
    /\ llamadas = << >>
    /\ excepcion = NoExc
    /\ retorno = NoRet
    /\ previos = << >>
    /\ registro = << >>

\* factory.crearNotificacion(t)
CrearNotificacion ==
    \E t \in Tags :
       \E r \in {crearNotificacion(t)} :
       /\ retorno' = r.ret
       /\ excepcion' = r.exc
       /\ salida' = << >>
       /\ llamadas' = << >>
       /\ ultima' = Op("crearNotificacion", 0, t, "")
       /\ UNCHANGED <<usuarios, observadores, previos, registro, tagsDados>>

\* user.actualizar(m)
Actualizar ==
    \E o \in 1..Len(usuarios), m \in Mensajes :
       \E r \in {actualizar(usuarios[o], m)} :
       /\ salida' = r.salida
       /\ excepcion' = r.exc
       /\ llamadas' = <<Llamada(o, m)>>
       /\ retorno' = NoRet
       /\ ultima' = Op("actualizar", o, usuarios[o].metodo_notif, m)
       /\ UNCHANGED <<usuarios, observadores, previos, registro, tagsDados>>

NextUsuario == CrearNotificacion \/ Actualizar

SpecUsuario == InitUsuario /\ [][NextUsuario]_vars

----------------------------------------------------------------------------
(* Helpers of the properties *)

EnLista(lista, x) == \E i \in 1..Len(lista) : lista[i] = x

Pos(lista, x) == IF EnLista(lista, x) THEN CHOOSE i \in 1..Len(lista) : lista[i] = x ELSE 0

SinRepetidos(lista) == \A i, j \in 1..Len(lista) : i # j => lista[i] # lista[j]

\* number of positions of lista that satisfy P
Cuenta(lista, P(_)) == Cardinality({i \in 1..Len(lista) : P(lista[i])})

\* Unicode case folding (the caseless matching of the Unicode standard), one
\* arm for every character that folding changes
PlegarTabla(c) ==
    CASE c = "A" -> <<"a">> [] c = "B" -> <<"b">> [] c = "C" -> <<"c">> [] c = "D" -> <<"d">>
      [] c = "E" -> <<"e">> [] c = "F" -> <<"f">> [] c = "G" -> <<"g">> [] c = "H" -> <<"h">>
      [] c = "I" -> <<"i">> [] c = "J" -> <<"j">> [] c = "K" -> <<"k">> [] c = "L" -> <<"l">>
      [] c = "M" -> <<"m">> [] c = "N" -> <<"n">> [] c = "O" -> <<"o">> [] c = "P" -> <<"p">>
      [] c = "Q" -> <<"q">> [] c = "R" -> <<"r">> [] c = "S" -> <<"s">> [] c = "T" -> <<"t">>
      [] c = "U" -> <<"u">> [] c = "V" -> <<"v">> [] c = "W" -> <<"w">> [] c = "X" -> <<"x">>
      [] c = "Y" -> <<"y">> [] c = "Z" -> <<"z">> [] c = "U+00B5" -> <<"U+03BC">>
      [] c = "U+00C0" -> <<"U+00E0">> [] c = "U+00C1" -> <<"U+00E1">>
      [] c = "U+00C2" -> <<"U+00E2">> [] c = "U+00C3" -> <<"U+00E3">>
      [] c = "U+00C4" -> <<"U+00E4">> [] c = "U+00C5" -> <<"U+00E5">>
      [] c = "U+00C6" -> <<"U+00E6">> [] c = "U+00C7" -> <<"U+00E7">>
      [] c = "U+00C8" -> <<"U+00E8">> [] c = "U+00C9" -> <<"U+00E9">>
      [] c = "U+00CA" -> <<"U+00EA">> [] c = "U+00CB" -> <<"U+00EB">>
      [] c = "U+00CC" -> <<"U+00EC">> [] c = "U+00CD" -> <<"U+00ED">>
      [] c = "U+00CE" -> <<"U+00EE">> [] c = "U+00CF" -> <<"U+00EF">>
      [] c = "U+00D0" -> <<"U+00F0">> [] c = "U+00D1" -> <<"U+00F1">>
      [] c = "U+00D2" -> <<"U+00F2">> [] c = "U+00D3" -> <<"U+00F3">>
      [] c = "U+00D4" -> <<"U+00F4">> [] c = "U+00D5" -> <<"U+00F5">>
      [] c = "U+00D6" -> <<"U+00F6">> [] c = "U+00D8" -> <<"U+00F8">>
      [] c = "U+00D9" -> <<"U+00F9">> [] c = "U+00DA" -> <<"U+00FA">>
      [] c = "U+00DB" -> <<"U+00FB">> [] c = "U+00DC" -> <<"U+00FC">>
      [] c = "U+00DD" -> <<"U+00FD">> [] c = "U+00DE" -> <<"U+00FE">>
      [] c = "U+00DF" -> <<"s", "s">> [] c = "U+0100" -> <<"U+0101">>
      [] c = "U+0102" -> <<"U+0103">> [] c = "U+0104" -> <<"U+0105">>
      [] c = "U+0106" -> <<"U+0107">> [] c = "U+0108" -> <<"U+0109">>
      [] c = "U+010A" -> <<"U+010B">> [] c = "U+010C" -> <<"U+010D">>
      [] c = "U+010E" -> <<"U+010F">> [] c = "U+0110" -> <<"U+0111">>
      [] c = "U+0112" -> <<"U+0113">> [] c = "U+0114" -> <<"U+0115">>
      [] c = "U+0116" -> <<"U+0117">> [] c = "U+0118" -> <<"U+0119">>
      [] c = "U+011A" -> <<"U+011B">> [] c = "U+011C" -> <<"U+011D">>
      [] c = "U+011E" -> <<"U+011F">> [] c = "U+0120" -> <<"U+0121">>
      [] c = "U+0122" -> <<"U+0123">> [] c = "U+0124" -> <<"U+0125">>
      [] c = "U+0126" -> <<"U+0127">> [] c = "U+0128" -> <<"U+0129">>
      [] c = "U+012A" -> <<"U+012B">> [] c = "U+012C" -> <<"U+012D">>
      [] c = "U+012E" -> <<"U+012F">> [] c = "U+0130" -> <<"i", "U+0307">>
      [] c = "U+0132" -> <<"U+0133">> [] c = "U+0134" -> <<"U+0135">>
      [] c = "U+0136" -> <<"U+0137">> [] c = "U+0139" -> <<"U+013A">>
      [] c = "U+013B" -> <<"U+013C">> [] c = "U+013D" -> <<"U+013E">>
      [] c = "U+013F" -> <<"U+0140">> [] c = "U+0141" -> <<"U+0142">>
      [] c = "U+0143" -> <<"U+0144">> [] c = "U+0145" -> <<"U+0146">>
      [] c = "U+0147" -> <<"U+0148">> [] c = "U+0149" -> <<"U+02BC", "n">>
      [] c = "U+014A" -> <<"U+014B">> [] c = "U+014C" -> <<"U+014D">>
      [] c = "U+014E" -> <<"U+014F">> [] c = "U+0150" -> <<"U+0151">>
      [] c = "U+0152" -> <<"U+0153">> [] c = "U+0154" -> <<"U+0155">>
      [] c = "U+0156" -> <<"U+0157">> [] c = "U+0158" -> <<"U+0159">>
      [] c = "U+015A" -> <<"U+015B">> [] c = "U+015C" -> <<"U+015D">>
      [] c = "U+015E" -> <<"U+015F">> [] c = "U+0160" -> <<"U+0161">>
      [] c = "U+0162" -> <<"U+0163">> [] c = "U+0164" -> <<"U+0165">>
      [] c = "U+0166" -> <<"U+0167">> [] c = "U+0168" -> <<"U+0169">>
      [] c = "U+016A" -> <<"U+016B">> [] c = "U+016C" -> <<"U+016D">>
      [] c = "U+016E" -> <<"U+016F">> [] c = "U+0170" -> <<"U+0171">>
      [] c = "U+0172" -> <<"U+0173">> [] c = "U+0174" -> <<"U+0175">>
      [] c = "U+0176" -> <<"U+0177">> [] c = "U+0178" -> <<"U+00FF">>
      [] c = "U+0179" -> <<"U+017A">> [] c = "U+017B" -> <<"U+017C">>
      [] c = "U+017D" -> <<"U+017E">> [] c = "U+017F" -> <<"s">> [] c = "U+0181" -> <<"U+0253">>
      [] c = "U+0182" -> <<"U+0183">> [] c = "U+0184" -> <<"U+0185">>
      [] c = "U+0186" -> <<"U+0254">> [] c = "U+0187" -> <<"U+0188">>
      [] c = "U+0189" -> <<"U+0256">> [] c = "U+018A" -> <<"U+0257">>
      [] c = "U+018B" -> <<"U+018C">> [] c = "U+018E" -> <<"U+01DD">>
      [] c = "U+018F" -> <<"U+0259">> [] c = "U+0190" -> <<"U+025B">>
      [] c = "U+0191" -> <<"U+0192">> [] c = "U+0193" -> <<"U+0260">>
      [] c = "U+0194" -> <<"U+0263">> [] c = "U+0196" -> <<"U+0269">>
      [] c = "U+0197" -> <<"U+0268">> [] c = "U+0198" -> <<"U+0199">>
      [] c = "U+019C" -> <<"U+026F">> [] c = "U+019D" -> <<"U+0272">>
      [] c = "U+019F" -> <<"U+0275">> [] c = "U+01A0" -> <<"U+01A1">>
      [] c = "U+01A2" -> <<"U+01A3">> [] c = "U+01A4" -> <<"U+01A5">>
      [] c = "U+01A6" -> <<"U+0280">> [] c = "U+01A7" -> <<"U+01A8">>
      [] c = "U+01A9" -> <<"U+0283">> [] c = "U+01AC" -> <<"U+01AD">>
      [] c = "U+01AE" -> <<"U+0288">> [] c = "U+01AF" -> <<"U+01B0">>
      [] c = "U+01B1" -> <<"U+028A">> [] c = "U+01B2" -> <<"U+028B">>
      [] c = "U+01B3" -> <<"U+01B4">> [] c = "U+01B5" -> <<"U+01B6">>
      [] c = "U+01B7" -> <<"U+0292">> [] c = "U+01B8" -> <<"U+01B9">>
      [] c = "U+01BC" -> <<"U+01BD">> [] c = "U+01C4" -> <<"U+01C6">>
      [] c = "U+01C5" -> <<"U+01C6">> [] c = "U+01C7" -> <<"U+01C9">>
      [] c = "U+01C8" -> <<"U+01C9">> [] c = "U+01CA" -> <<"U+01CC">>
      [] c = "U+01CB" -> <<"U+01CC">> [] c = "U+01CD" -> <<"U+01CE">>
      [] c = "U+01CF" -> <<"U+01D0">> [] c = "U+01D1" -> <<"U+01D2">>
      [] c = "U+01D3" -> <<"U+01D4">> [] c = "U+01D5" -> <<"U+01D6">>
      [] c = "U+01D7" -> <<"U+01D8">> [] c = "U+01D9" -> <<"U+01DA">>
      [] c = "U+01DB" -> <<"U+01DC">> [] c = "U+01DE" -> <<"U+01DF">>
      [] c = "U+01E0" -> <<"U+01E1">> [] c = "U+01E2" -> <<"U+01E3">>
      [] c = "U+01E4" -> <<"U+01E5">> [] c = "U+01E6" -> <<"U+01E7">>
      [] c = "U+01E8" -> <<"U+01E9">> [] c = "U+01EA" -> <<"U+01EB">>
      [] c = "U+01EC" -> <<"U+01ED">> [] c = "U+01EE" -> <<"U+01EF">>
      [] c = "U+01F0" -> <<"j", "U+030C">> [] c = "U+01F1" -> <<"U+01F3">>
      [] c = "U+01F2" -> <<"U+01F3">> [] c = "U+01F4" -> <<"U+01F5">>
      [] c = "U+01F6" -> <<"U+0195">> [] c = "U+01F7" -> <<"U+01BF">>
      [] c = "U+01F8" -> <<"U+01F9">> [] c = "U+01FA" -> <<"U+01FB">>
      [] c = "U+01FC" -> <<"U+01FD">> [] c = "U+01FE" -> <<"U+01FF">>
      [] c = "U+0200" -> <<"U+0201">> [] c = "U+0202" -> <<"U+0203">>
      [] c = "U+0204" -> <<"U+0205">> [] c = "U+0206" -> <<"U+0207">>
      [] c = "U+0208" -> <<"U+0209">> [] c = "U+020A" -> <<"U+020B">>
      [] c = "U+020C" -> <<"U+020D">> [] c = "U+020E" -> <<"U+020F">>
      [] c = "U+0210" -> <<"U+0211">> [] c = "U+0212" -> <<"U+0213">>
      [] c = "U+0214" -> <<"U+0215">> [] c = "U+0216" -> <<"U+0217">>
      [] c = "U+0218" -> <<"U+0219">> [] c = "U+021A" -> <<"U+021B">>
      [] c = "U+021C" -> <<"U+021D">> [] c = "U+021E" -> <<"U+021F">>
      [] c = "U+0220" -> <<"U+019E">> [] c = "U+0222" -> <<"U+0223">>
      [] c = "U+0224" -> <<"U+0225">> [] c = "U+0226" -> <<"U+0227">>
      [] c = "U+0228" -> <<"U+0229">> [] c = "U+022A" -> <<"U+022B">>
      [] c = "U+022C" -> <<"U+022D">> [] c = "U+022E" -> <<"U+022F">>
      [] c = "U+0230" -> <<"U+0231">> [] c = "U+0232" -> <<"U+0233">>
      [] c = "U+023A" -> <<"U+2C65">> [] c = "U+023B" -> <<"U+023C">>
      [] c = "U+023D" -> <<"U+019A">> [] c = "U+023E" -> <<"U+2C66">>
      [] c = "U+0241" -> <<"U+0242">> [] c = "U+0243" -> <<"U+0180">>
      [] c = "U+0244" -> <<"U+0289">> [] c = "U+0245" -> <<"U+028C">>
      [] c = "U+0246" -> <<"U+0247">> [] c = "U+0248" -> <<"U+0249">>
      [] c = "U+024A" -> <<"U+024B">> [] c = "U+024C" -> <<"U+024D">>
      [] c = "U+024E" -> <<"U+024F">> [] c = "U+0345" -> <<"U+03B9">>
      [] c = "U+0370" -> <<"U+0371">> [] c = "U+0372" -> <<"U+0373">>
      [] c = "U+0376" -> <<"U+0377">> [] c = "U+037F" -> <<"U+03F3">>
      [] c = "U+0386" -> <<"U+03AC">> [] c = "U+0388" -> <<"U+03AD">>
      [] c = "U+0389" -> <<"U+03AE">> [] c = "U+038A" -> <<"U+03AF">>
      [] c = "U+038C" -> <<"U+03CC">> [] c = "U+038E" -> <<"U+03CD">>
      [] c = "U+038F" -> <<"U+03CE">> [] c = "U+0390" -> <<"U+03B9", "U+0308", "U+0301">>
      [] c = "U+0391" -> <<"U+03B1">> [] c = "U+0392" -> <<"U+03B2">>
      [] c = "U+0393" -> <<"U+03B3">> [] c = "U+0394" -> <<"U+03B4">>
      [] c = "U+0395" -> <<"U+03B5">> [] c = "U+0396" -> <<"U+03B6">>
      [] c = "U+0397" -> <<"U+03B7">> [] c = "U+0398" -> <<"U+03B8">>
      [] c = "U+0399" -> <<"U+03B9">> [] c = "U+039A" -> <<"U+03BA">>
      [] c = "U+039B" -> <<"U+03BB">> [] c = "U+039C" -> <<"U+03BC">>
      [] c = "U+039D" -> <<"U+03BD">> [] c = "U+039E" -> <<"U+03BE">>
      [] c = "U+039F" -> <<"U+03BF">> [] c = "U+03A0" -> <<"U+03C0">>
      [] c = "U+03A1" -> <<"U+03C1">> [] c = "U+03A3" -> <<"U+03C3">>
      [] c = "U+03A4" -> <<"U+03C4">> [] c = "U+03A5" -> <<"U+03C5">>
      [] c = "U+03A6" -> <<"U+03C6">> [] c = "U+03A7" -> <<"U+03C7">>
      [] c = "U+03A8" -> <<"U+03C8">> [] c = "U+03A9" -> <<"U+03C9">>
      [] c = "U+03AA" -> <<"U+03CA">> [] c = "U+03AB" -> <<"U+03CB">>
      [] c = "U+03B0" -> <<"U+03C5", "U+0308", "U+0301">> [] c = "U+03C2" -> <<"U+03C3">>
      [] c = "U+03CF" -> <<"U+03D7">> [] c = "U+03D0" -> <<"U+03B2">>
      [] c = "U+03D1" -> <<"U+03B8">> [] c = "U+03D5" -> <<"U+03C6">>
      [] c = "U+03D6" -> <<"U+03C0">> [] c = "U+03D8" -> <<"U+03D9">>
      [] c = "U+03DA" -> <<"U+03DB">> [] c = "U+03DC" -> <<"U+03DD">>
      [] c = "U+03DE" -> <<"U+03DF">> [] c = "U+03E0" -> <<"U+03E1">>
      [] c = "U+03E2" -> <<"U+03E3">> [] c = "U+03E4" -> <<"U+03E5">>
      [] c = "U+03E6" -> <<"U+03E7">> [] c = "U+03E8" -> <<"U+03E9">>
      [] c = "U+03EA" -> <<"U+03EB">> [] c = "U+03EC" -> <<"U+03ED">>
      [] c = "U+03EE" -> <<"U+03EF">> [] c = "U+03F0" -> <<"U+03BA">>
      [] c = "U+03F1" -> <<"U+03C1">> [] c = "U+03F4" -> <<"U+03B8">>
      [] c = "U+03F5" -> <<"U+03B5">> [] c = "U+03F7" -> <<"U+03F8">>
      [] c = "U+03F9" -> <<"U+03F2">> [] c = "U+03FA" -> <<"U+03FB">>
      [] c = "U+03FD" -> <<"U+037B">> [] c = "U+03FE" -> <<"U+037C">>
      [] c = "U+03FF" -> <<"U+037D">> [] c = "U+0400" -> <<"U+0450">>
      [] c = "U+0401" -> <<"U+0451">> [] c = "U+0402" -> <<"U+0452">>
      [] c = "U+0403" -> <<"U+0453">> [] c = "U+0404" -> <<"U+0454">>
      [] c = "U+0405" -> <<"U+0455">> [] c = "U+0406" -> <<"U+0456">>
      [] c = "U+0407" -> <<"U+0457">> [] c = "U+0408" -> <<"U+0458">>
      [] c = "U+0409" -> <<"U+0459">> [] c = "U+040A" -> <<"U+045A">>
      [] c = "U+040B" -> <<"U+045B">> [] c = "U+040C" -> <<"U+045C">>
      [] c = "U+040D" -> <<"U+045D">> [] c = "U+040E" -> <<"U+045E">>
      [] c = "U+040F" -> <<"U+045F">> [] c = "U+0410" -> <<"U+0430">>
      [] c = "U+0411" -> <<"U+0431">> [] c = "U+0412" -> <<"U+0432">>
      [] c = "U+0413" -> <<"U+0433">> [] c = "U+0414" -> <<"U+0434">>
      [] c = "U+0415" -> <<"U+0435">> [] c = "U+0416" -> <<"U+0436">>
      [] c = "U+0417" -> <<"U+0437">> [] c = "U+0418" -> <<"U+0438">>
      [] c = "U+0419" -> <<"U+0439">> [] c = "U+041A" -> <<"U+043A">>
      [] c = "U+041B" -> <<"U+043B">> [] c = "U+041C" -> <<"U+043C">>
      [] c = "U+041D" -> <<"U+043D">> [] c = "U+041E" -> <<"U+043E">>
      [] c = "U+041F" -> <<"U+043F">> [] c = "U+0420" -> <<"U+0440">>
      [] c = "U+0421" -> <<"U+0441">> [] c = "U+0422" -> <<"U+0442">>
      [] c = "U+0423" -> <<"U+0443">> [] c = "U+0424" -> <<"U+0444">>
      [] c = "U+0425" -> <<"U+0445">> [] c = "U+0426" -> <<"U+0446">>
      [] c = "U+0427" -> <<"U+0447">> [] c = "U+0428" -> <<"U+0448">>
      [] c = "U+0429" -> <<"U+0449">> [] c = "U+042A" -> <<"U+044A">>
      [] c = "U+042B" -> <<"U+044B">> [] c = "U+042C" -> <<"U+044C">>
      [] c = "U+042D" -> <<"U+044D">> [] c = "U+042E" -> <<"U+044E">>
      [] c = "U+042F" -> <<"U+044F">> [] c = "U+0460" -> <<"U+0461">>
      [] c = "U+0462" -> <<"U+0463">> [] c = "U+0464" -> <<"U+0465">>
      [] c = "U+0466" -> <<"U+0467">> [] c = "U+0468" -> <<"U+0469">>
      [] c = "U+046A" -> <<"U+046B">> [] c = "U+046C" -> <<"U+046D">>
      [] c = "U+046E" -> <<"U+046F">> [] c = "U+0470" -> <<"U+0471">>
      [] c = "U+0472" -> <<"U+0473">> [] c = "U+0474" -> <<"U+0475">>
      [] c = "U+0476" -> <<"U+0477">> [] c = "U+0478" -> <<"U+0479">>
      [] c = "U+047A" -> <<"U+047B">> [] c = "U+047C" -> <<"U+047D">>
      [] c = "U+047E" -> <<"U+047F">> [] c = "U+0480" -> <<"U+0481">>
      [] c = "U+048A" -> <<"U+048B">> [] c = "U+048C" -> <<"U+048D">>
      [] c = "U+048E" -> <<"U+048F">> [] c = "U+0490" -> <<"U+0491">>
      [] c = "U+0492" -> <<"U+0493">> [] c = "U+0494" -> <<"U+0495">>
      [] c = "U+0496" -> <<"U+0497">> [] c = "U+0498" -> <<"U+0499">>
      [] c = "U+049A" -> <<"U+049B">> [] c = "U+049C" -> <<"U+049D">>
      [] c = "U+049E" -> <<"U+049F">> [] c = "U+04A0" -> <<"U+04A1">>
      [] c = "U+04A2" -> <<"U+04A3">> [] c = "U+04A4" -> <<"U+04A5">>
      [] c = "U+04A6" -> <<"U+04A7">> [] c = "U+04A8" -> <<"U+04A9">>
      [] c = "U+04AA" -> <<"U+04AB">> [] c = "U+04AC" -> <<"U+04AD">>
      [] c = "U+04AE" -> <<"U+04AF">> [] c = "U+04B0" -> <<"U+04B1">>
      [] c = "U+04B2" -> <<"U+04B3">> [] c = "U+04B4" -> <<"U+04B5">>
      [] c = "U+04B6" -> <<"U+04B7">> [] c = "U+04B8" -> <<"U+04B9">>
      [] c = "U+04BA" -> <<"U+04BB">> [] c = "U+04BC" -> <<"U+04BD">>
      [] c = "U+04BE" -> <<"U+04BF">> [] c = "U+04C0" -> <<"U+04CF">>
      [] c = "U+04C1" -> <<"U+04C2">> [] c = "U+04C3" -> <<"U+04C4">>
      [] c = "U+04C5" -> <<"U+04C6">> [] c = "U+04C7" -> <<"U+04C8">>
      [] c = "U+04C9" -> <<"U+04CA">> [] c = "U+04CB" -> <<"U+04CC">>
      [] c = "U+04CD" -> <<"U+04CE">> [] c = "U+04D0" -> <<"U+04D1">>
      [] c = "U+04D2" -> <<"U+04D3">> [] c = "U+04D4" -> <<"U+04D5">>
      [] c = "U+04D6" -> <<"U+04D7">> [] c = "U+04D8" -> <<"U+04D9">>
      [] c = "U+04DA" -> <<"U+04DB">> [] c = "U+04DC" -> <<"U+04DD">>
      [] c = "U+04DE" -> <<"U+04DF">> [] c = "U+04E0" -> <<"U+04E1">>
      [] c = "U+04E2" -> <<"U+04E3">> [] c = "U+04E4" -> <<"U+04E5">>
      [] c = "U+04E6" -> <<"U+04E7">> [] c = "U+04E8" -> <<"U+04E9">>
      [] c = "U+04EA" -> <<"U+04EB">> [] c = "U+04EC" -> <<"U+04ED">>
      [] c = "U+04EE" -> <<"U+04EF">> [] c = "U+04F0" -> <<"U+04F1">>
      [] c = "U+04F2" -> <<"U+04F3">> [] c = "U+04F4" -> <<"U+04F5">>
      [] c = "U+04F6" -> <<"U+04F7">> [] c = "U+04F8" -> <<"U+04F9">>
      [] c = "U+04FA" -> <<"U+04FB">> [] c = "U+04FC" -> <<"U+04FD">>
      [] c = "U+04FE" -> <<"U+04FF">> [] c = "U+0500" -> <<"U+0501">>
      [] c = "U+0502" -> <<"U+0503">> [] c = "U+0504" -> <<"U+0505">>
      [] c = "U+0506" -> <<"U+0507">> [] c = "U+0508" -> <<"U+0509">>
      [] c = "U+050A" -> <<"U+050B">> [] c = "U+050C" -> <<"U+050D">>
      [] c = "U+050E" -> <<"U+050F">> [] c = "U+0510" -> <<"U+0511">>
      [] c = "U+0512" -> <<"U+0513">> [] c = "U+0514" -> <<"U+0515">>
      [] c = "U+0516" -> <<"U+0517">> [] c = "U+0518" -> <<"U+0519">>
      [] c = "U+051A" -> <<"U+051B">> [] c = "U+051C" -> <<"U+051D">>
      [] c = "U+051E" -> <<"U+051F">> [] c = "U+0520" -> <<"U+0521">>
      [] c = "U+0522" -> <<"U+0523">> [] c = "U+0524" -> <<"U+0525">>
      [] c = "U+0526" -> <<"U+0527">> [] c = "U+0528" -> <<"U+0529">>
      [] c = "U+052A" -> <<"U+052B">> [] c = "U+052C" -> <<"U+052D">>
      [] c = "U+052E" -> <<"U+052F">> [] c = "U+0531" -> <<"U+0561">>
      [] c = "U+0532" -> <<"U+0562">> [] c = "U+0533" -> <<"U+0563">>
      [] c = "U+0534" -> <<"U+0564">> [] c = "U+0535" -> <<"U+0565">>
      [] c = "U+0536" -> <<"U+0566">> [] c = "U+0537" -> <<"U+0567">>
      [] c = "U+0538" -> <<"U+0568">> [] c = "U+0539" -> <<"U+0569">>
      [] c = "U+053A" -> <<"U+056A">> [] c = "U+053B" -> <<"U+056B">>
      [] c = "U+053C" -> <<"U+056C">> [] c = "U+053D" -> <<"U+056D">>
      [] c = "U+053E" -> <<"U+056E">> [] c = "U+053F" -> <<"U+056F">>
      [] c = "U+0540" -> <<"U+0570">> [] c = "U+0541" -> <<"U+0571">>
      [] c = "U+0542" -> <<"U+0572">> [] c = "U+0543" -> <<"U+0573">>
      [] c = "U+0544" -> <<"U+0574">> [] c = "U+0545" -> <<"U+0575">>
      [] c = "U+0546" -> <<"U+0576">> [] c = "U+0547" -> <<"U+0577">>
      [] c = "U+0548" -> <<"U+0578">> [] c = "U+0549" -> <<"U+0579">>
      [] c = "U+054A" -> <<"U+057A">> [] c = "U+054B" -> <<"U+057B">>
      [] c = "U+054C" -> <<"U+057C">> [] c = "U+054D" -> <<"U+057D">>
      [] c = "U+054E" -> <<"U+057E">> [] c = "U+054F" -> <<"U+057F">>
      [] c = "U+0550" -> <<"U+0580">> [] c = "U+0551" -> <<"U+0581">>
      [] c = "U+0552" -> <<"U+0582">> [] c = "U+0553" -> <<"U+0583">>
      [] c = "U+0554" -> <<"U+0584">> [] c = "U+0555" -> <<"U+0585">>
      [] c = "U+0556" -> <<"U+0586">> [] c = "U+0587" -> <<"U+0565", "U+0582">>
      [] c = "U+10A0" -> <<"U+2D00">> [] c = "U+10A1" -> <<"U+2D01">>
      [] c = "U+10A2" -> <<"U+2D02">> [] c = "U+10A3" -> <<"U+2D03">>
      [] c = "U+10A4" -> <<"U+2D04">> [] c = "U+10A5" -> <<"U+2D05">>
      [] c = "U+10A6" -> <<"U+2D06">> [] c = "U+10A7" -> <<"U+2D07">>
      [] c = "U+10A8" -> <<"U+2D08">> [] c = "U+10A9" -> <<"U+2D09">>
      [] c = "U+10AA" -> <<"U+2D0A">> [] c = "U+10AB" -> <<"U+2D0B">>
      [] c = "U+10AC" -> <<"U+2D0C">> [] c = "U+10AD" -> <<"U+2D0D">>
      [] c = "U+10AE" -> <<"U+2D0E">> [] c = "U+10AF" -> <<"U+2D0F">>
      [] c = "U+10B0" -> <<"U+2D10">> [] c = "U+10B1" -> <<"U+2D11">>
      [] c = "U+10B2" -> <<"U+2D12">> [] c = "U+10B3" -> <<"U+2D13">>
      [] c = "U+10B4" -> <<"U+2D14">> [] c = "U+10B5" -> <<"U+2D15">>
      [] c = "U+10B6" -> <<"U+2D16">> [] c = "U+10B7" -> <<"U+2D17">>
      [] c = "U+10B8" -> <<"U+2D18">> [] c = "U+10B9" -> <<"U+2D19">>
      [] c = "U+10BA" -> <<"U+2D1A">> [] c = "U+10BB" -> <<"U+2D1B">>
      [] c = "U+10BC" -> <<"U+2D1C">> [] c = "U+10BD" -> <<"U+2D1D">>
      [] c = "U+10BE" -> <<"U+2D1E">> [] c = "U+10BF" -> <<"U+2D1F">>
      [] c = "U+10C0" -> <<"U+2D20">> [] c = "U+10C1" -> <<"U+2D21">>
      [] c = "U+10C2" -> <<"U+2D22">> [] c = "U+10C3" -> <<"U+2D23">>
      [] c = "U+10C4" -> <<"U+2D24">> [] c = "U+10C5" -> <<"U+2D25">>
      [] c = "U+10C7" -> <<"U+2D27">> [] c = "U+10CD" -> <<"U+2D2D">>
      [] c = "U+13F8" -> <<"U+13F0">> [] c = "U+13F9" -> <<"U+13F1">>
      [] c = "U+13FA" -> <<"U+13F2">> [] c = "U+13FB" -> <<"U+13F3">>
      [] c = "U+13FC" -> <<"U+13F4">> [] c = "U+13FD" -> <<"U+13F5">>
      [] c = "U+1C80" -> <<"U+0432">> [] c = "U+1C81" -> <<"U+0434">>
      [] c = "U+1C82" -> <<"U+043E">> [] c = "U+1C83" -> <<"U+0441">>
      [] c = "U+1C84" -> <<"U+0442">> [] c = "U+1C85" -> <<"U+0442">>
      [] c = "U+1C86" -> <<"U+044A">> [] c = "U+1C87" -> <<"U+0463">>
      [] c = "U+1C88" -> <<"U+A64B">> [] c = "U+1C90" -> <<"U+10D0">>
      [] c = "U+1C91" -> <<"U+10D1">> [] c = "U+1C92" -> <<"U+10D2">>
      [] c = "U+1C93" -> <<"U+10D3">> [] c = "U+1C94" -> <<"U+10D4">>
      [] c = "U+1C95" -> <<"U+10D5">> [] c = "U+1C96" -> <<"U+10D6">>
      [] c = "U+1C97" -> <<"U+10D7">> [] c = "U+1C98" -> <<"U+10D8">>
      [] c = "U+1C99" -> <<"U+10D9">> [] c = "U+1C9A" -> <<"U+10DA">>
      [] c = "U+1C9B" -> <<"U+10DB">> [] c = "U+1C9C" -> <<"U+10DC">>
      [] c = "U+1C9D" -> <<"U+10DD">> [] c = "U+1C9E" -> <<"U+10DE">>
      [] c = "U+1C9F" -> <<"U+10DF">> [] c = "U+1CA0" -> <<"U+10E0">>
      [] c = "U+1CA1" -> <<"U+10E1">> [] c = "U+1CA2" -> <<"U+10E2">>
      [] c = "U+1CA3" -> <<"U+10E3">> [] c = "U+1CA4" -> <<"U+10E4">>
      [] c = "U+1CA5" -> <<"U+10E5">> [] c = "U+1CA6" -> <<"U+10E6">>
      [] c = "U+1CA7" -> <<"U+10E7">> [] c = "U+1CA8" -> <<"U+10E8">>
      [] c = "U+1CA9" -> <<"U+10E9">> [] c = "U+1CAA" -> <<"U+10EA">>
      [] c = "U+1CAB" -> <<"U+10EB">> [] c = "U+1CAC" -> <<"U+10EC">>
      [] c = "U+1CAD" -> <<"U+10ED">> [] c = "U+1CAE" -> <<"U+10EE">>
      [] c = "U+1CAF" -> <<"U+10EF">> [] c = "U+1CB0" -> <<"U+10F0">>
      [] c = "U+1CB1" -> <<"U+10F1">> [] c = "U+1CB2" -> <<"U+10F2">>
      [] c = "U+1CB3" -> <<"U+10F3">> [] c = "U+1CB4" -> <<"U+10F4">>
      [] c = "U+1CB5" -> <<"U+10F5">> [] c = "U+1CB6" -> <<"U+10F6">>
      [] c = "U+1CB7" -> <<"U+10F7">> [] c = "U+1CB8" -> <<"U+10F8">>
      [] c = "U+1CB9" -> <<"U+10F9">> [] c = "U+1CBA" -> <<"U+10FA">>
      [] c = "U+1CBD" -> <<"U+10FD">> [] c = "U+1CBE" -> <<"U+10FE">>
      [] c = "U+1CBF" -> <<"U+10FF">> [] c = "U+1E00" -> <<"U+1E01">>
      [] c = "U+1E02" -> <<"U+1E03">> [] c = "U+1E04" -> <<"U+1E05">>
      [] c = "U+1E06" -> <<"U+1E07">> [] c = "U+1E08" -> <<"U+1E09">>
      [] c = "U+1E0A" -> <<"U+1E0B">> [] c = "U+1E0C" -> <<"U+1E0D">>
      [] c = "U+1E0E" -> <<"U+1E0F">> [] c = "U+1E10" -> <<"U+1E11">>
      [] c = "U+1E12" -> <<"U+1E13">> [] c = "U+1E14" -> <<"U+1E15">>
      [] c = "U+1E16" -> <<"U+1E17">> [] c = "U+1E18" -> <<"U+1E19">>
      [] c = "U+1E1A" -> <<"U+1E1B">> [] c = "U+1E1C" -> <<"U+1E1D">>
      [] c = "U+1E1E" -> <<"U+1E1F">> [] c = "U+1E20" -> <<"U+1E21">>
      [] c = "U+1E22" -> <<"U+1E23">> [] c = "U+1E24" -> <<"U+1E25">>
      [] c = "U+1E26" -> <<"U+1E27">> [] c = "U+1E28" -> <<"U+1E29">>
      [] c = "U+1E2A" -> <<"U+1E2B">> [] c = "U+1E2C" -> <<"U+1E2D">>
      [] c = "U+1E2E" -> <<"U+1E2F">> [] c = "U+1E30" -> <<"U+1E31">>
      [] c = "U+1E32" -> <<"U+1E33">> [] c = "U+1E34" -> <<"U+1E35">>
      [] c = "U+1E36" -> <<"U+1E37">> [] c = "U+1E38" -> <<"U+1E39">>
      [] c = "U+1E3A" -> <<"U+1E3B">> [] c = "U+1E3C" -> <<"U+1E3D">>
      [] c = "U+1E3E" -> <<"U+1E3F">> [] c = "U+1E40" -> <<"U+1E41">>
      [] c = "U+1E42" -> <<"U+1E43">> [] c = "U+1E44" -> <<"U+1E45">>
      [] c = "U+1E46" -> <<"U+1E47">> [] c = "U+1E48" -> <<"U+1E49">>
      [] c = "U+1E4A" -> <<"U+1E4B">> [] c = "U+1E4C" -> <<"U+1E4D">>
      [] c = "U+1E4E" -> <<"U+1E4F">> [] c = "U+1E50" -> <<"U+1E51">>
      [] c = "U+1E52" -> <<"U+1E53">> [] c = "U+1E54" -> <<"U+1E55">>
      [] c = "U+1E56" -> <<"U+1E57">> [] c = "U+1E58" -> <<"U+1E59">>
      [] c = "U+1E5A" -> <<"U+1E5B">> [] c = "U+1E5C" -> <<"U+1E5D">>
      [] c = "U+1E5E" -> <<"U+1E5F">> [] c = "U+1E60" -> <<"U+1E61">>
      [] c = "U+1E62" -> <<"U+1E63">> [] c = "U+1E64" -> <<"U+1E65">>
      [] c = "U+1E66" -> <<"U+1E67">> [] c = "U+1E68" -> <<"U+1E69">>
      [] c = "U+1E6A" -> <<"U+1E6B">> [] c = "U+1E6C" -> <<"U+1E6D">>
      [] c = "U+1E6E" -> <<"U+1E6F">> [] c = "U+1E70" -> <<"U+1E71">>
      [] c = "U+1E72" -> <<"U+1E73">> [] c = "U+1E74" -> <<"U+1E75">>
      [] c = "U+1E76" -> <<"U+1E77">> [] c = "U+1E78" -> <<"U+1E79">>
      [] c = "U+1E7A" -> <<"U+1E7B">> [] c = "U+1E7C" -> <<"U+1E7D">>
      [] c = "U+1E7E" -> <<"U+1E7F">> [] c = "U+1E80" -> <<"U+1E81">>
      [] c = "U+1E82" -> <<"U+1E83">> [] c = "U+1E84" -> <<"U+1E85">>
      [] c = "U+1E86" -> <<"U+1E87">> [] c = "U+1E88" -> <<"U+1E89">>
      [] c = "U+1E8A" -> <<"U+1E8B">> [] c = "U+1E8C" -> <<"U+1E8D">>
      [] c = "U+1E8E" -> <<"U+1E8F">> [] c = "U+1E90" -> <<"U+1E91">>
      [] c = "U+1E92" -> <<"U+1E93">> [] c = "U+1E94" -> <<"U+1E95">>
      [] c = "U+1E96" -> <<"h", "U+0331">> [] c = "U+1E97" -> <<"t", "U+0308">>
      [] c = "U+1E98" -> <<"w", "U+030A">> [] c = "U+1E99" -> <<"y", "U+030A">>
      [] c = "U+1E9A" -> <<"a", "U+02BE">> [] c = "U+1E9B" -> <<"U+1E61">>
      [] c = "U+1E9E" -> <<"s", "s">> [] c = "U+1EA0" -> <<"U+1EA1">>
      [] c = "U+1EA2" -> <<"U+1EA3">> [] c = "U+1EA4" -> <<"U+1EA5">>
      [] c = "U+1EA6" -> <<"U+1EA7">> [] c = "U+1EA8" -> <<"U+1EA9">>
      [] c = "U+1EAA" -> <<"U+1EAB">> [] c = "U+1EAC" -> <<"U+1EAD">>
      [] c = "U+1EAE" -> <<"U+1EAF">> [] c = "U+1EB0" -> <<"U+1EB1">>
      [] c = "U+1EB2" -> <<"U+1EB3">> [] c = "U+1EB4" -> <<"U+1EB5">>
      [] c = "U+1EB6" -> <<"U+1EB7">> [] c = "U+1EB8" -> <<"U+1EB9">>
      [] c = "U+1EBA" -> <<"U+1EBB">> [] c = "U+1EBC" -> <<"U+1EBD">>
      [] c = "U+1EBE" -> <<"U+1EBF">> [] c = "U+1EC0" -> <<"U+1EC1">>
      [] c = "U+1EC2" -> <<"U+1EC3">> [] c = "U+1EC4" -> <<"U+1EC5">>
      [] c = "U+1EC6" -> <<"U+1EC7">> [] c = "U+1EC8" -> <<"U+1EC9">>
      [] c = "U+1ECA" -> <<"U+1ECB">> [] c = "U+1ECC" -> <<"U+1ECD">>
      [] c = "U+1ECE" -> <<"U+1ECF">> [] c = "U+1ED0" -> <<"U+1ED1">>
      [] c = "U+1ED2" -> <<"U+1ED3">> [] c = "U+1ED4" -> <<"U+1ED5">>
      [] c = "U+1ED6" -> <<"U+1ED7">> [] c = "U+1ED8" -> <<"U+1ED9">>
      [] c = "U+1EDA" -> <<"U+1EDB">> [] c = "U+1EDC" -> <<"U+1EDD">>
      [] c = "U+1EDE" -> <<"U+1EDF">> [] c = "U+1EE0" -> <<"U+1EE1">>
      [] c = "U+1EE2" -> <<"U+1EE3">> [] c = "U+1EE4" -> <<"U+1EE5">>
      [] c = "U+1EE6" -> <<"U+1EE7">> [] c = "U+1EE8" -> <<"U+1EE9">>
      [] c = "U+1EEA" -> <<"U+1EEB">> [] c = "U+1EEC" -> <<"U+1EED">>
      [] c = "U+1EEE" -> <<"U+1EEF">> [] c = "U+1EF0" -> <<"U+1EF1">>
      [] c = "U+1EF2" -> <<"U+1EF3">> [] c = "U+1EF4" -> <<"U+1EF5">>
      [] c = "U+1EF6" -> <<"U+1EF7">> [] c = "U+1EF8" -> <<"U+1EF9">>
      [] c = "U+1EFA" -> <<"U+1EFB">> [] c = "U+1EFC" -> <<"U+1EFD">>
      [] c = "U+1EFE" -> <<"U+1EFF">> [] c = "U+1F08" -> <<"U+1F00">>
      [] c = "U+1F09" -> <<"U+1F01">> [] c = "U+1F0A" -> <<"U+1F02">>
      [] c = "U+1F0B" -> <<"U+1F03">> [] c = "U+1F0C" -> <<"U+1F04">>
      [] c = "U+1F0D" -> <<"U+1F05">> [] c = "U+1F0E" -> <<"U+1F06">>
      [] c = "U+1F0F" -> <<"U+1F07">> [] c = "U+1F18" -> <<"U+1F10">>
      [] c = "U+1F19" -> <<"U+1F11">> [] c = "U+1F1A" -> <<"U+1F12">>
      [] c = "U+1F1B" -> <<"U+1F13">> [] c = "U+1F1C" -> <<"U+1F14">>
      [] c = "U+1F1D" -> <<"U+1F15">> [] c = "U+1F28" -> <<"U+1F20">>
      [] c = "U+1F29" -> <<"U+1F21">> [] c = "U+1F2A" -> <<"U+1F22">>
      [] c = "U+1F2B" -> <<"U+1F23">> [] c = "U+1F2C" -> <<"U+1F24">>
      [] c = "U+1F2D" -> <<"U+1F25">> [] c = "U+1F2E" -> <<"U+1F26">>
      [] c = "U+1F2F" -> <<"U+1F27">> [] c = "U+1F38" -> <<"U+1F30">>
      [] c = "U+1F39" -> <<"U+1F31">> [] c = "U+1F3A" -> <<"U+1F32">>
      [] c = "U+1F3B" -> <<"U+1F33">> [] c = "U+1F3C" -> <<"U+1F34">>
      [] c = "U+1F3D" -> <<"U+1F35">> [] c = "U+1F3E" -> <<"U+1F36">>
      [] c = "U+1F3F" -> <<"U+1F37">> [] c = "U+1F48" -> <<"U+1F40">>
      [] c = "U+1F49" -> <<"U+1F41">> [] c = "U+1F4A" -> <<"U+1F42">>
      [] c = "U+1F4B" -> <<"U+1F43">> [] c = "U+1F4C" -> <<"U+1F44">>
      [] c = "U+1F4D" -> <<"U+1F45">> [] c = "U+1F50" -> <<"U+03C5", "U+0313">>
      [] c = "U+1F52" -> <<"U+03C5", "U+0313", "U+0300">>
      [] c = "U+1F54" -> <<"U+03C5", "U+0313", "U+0301">>
      [] c = "U+1F56" -> <<"U+03C5", "U+0313", "U+0342">> [] c = "U+1F59" -> <<"U+1F51">>
      [] c = "U+1F5B" -> <<"U+1F53">> [] c = "U+1F5D" -> <<"U+1F55">>
      [] c = "U+1F5F" -> <<"U+1F57">> [] c = "U+1F68" -> <<"U+1F60">>
      [] c = "U+1F69" -> <<"U+1F61">> [] c = "U+1F6A" -> <<"U+1F62">>
      [] c = "U+1F6B" -> <<"U+1F63">> [] c = "U+1F6C" -> <<"U+1F64">>
      [] c = "U+1F6D" -> <<"U+1F65">> [] c = "U+1F6E" -> <<"U+1F66">>
      [] c = "U+1F6F" -> <<"U+1F67">> [] c = "U+1F80" -> <<"U+1F00", "U+03B9">>
      [] c = "U+1F81" -> <<"U+1F01", "U+03B9">> [] c = "U+1F82" -> <<"U+1F02", "U+03B9">>
      [] c = "U+1F83" -> <<"U+1F03", "U+03B9">> [] c = "U+1F84" -> <<"U+1F04", "U+03B9">>
      [] c = "U+1F85" -> <<"U+1F05", "U+03B9">> [] c = "U+1F86" -> <<"U+1F06", "U+03B9">>
      [] c = "U+1F87" -> <<"U+1F07", "U+03B9">> [] c = "U+1F88" -> <<"U+1F00", "U+03B9">>
      [] c = "U+1F89" -> <<"U+1F01", "U+03B9">> [] c = "U+1F8A" -> <<"U+1F02", "U+03B9">>
      [] c = "U+1F8B" -> <<"U+1F03", "U+03B9">> [] c = "U+1F8C" -> <<"U+1F04", "U+03B9">>
      [] c = "U+1F8D" -> <<"U+1F05", "U+03B9">> [] c = "U+1F8E" -> <<"U+1F06", "U+03B9">>
      [] c = "U+1F8F" -> <<"U+1F07", "U+03B9">> [] c = "U+1F90" -> <<"U+1F20", "U+03B9">>
      [] c = "U+1F91" -> <<"U+1F21", "U+03B9">> [] c = "U+1F92" -> <<"U+1F22", "U+03B9">>
      [] c = "U+1F93" -> <<"U+1F23", "U+03B9">> [] c = "U+1F94" -> <<"U+1F24", "U+03B9">>
      [] c = "U+1F95" -> <<"U+1F25", "U+03B9">> [] c = "U+1F96" -> <<"U+1F26", "U+03B9">>
      [] c = "U+1F97" -> <<"U+1F27", "U+03B9">> [] c = "U+1F98" -> <<"U+1F20", "U+03B9">>
      [] c = "U+1F99" -> <<"U+1F21", "U+03B9">> [] c = "U+1F9A" -> <<"U+1F22", "U+03B9">>
      [] c = "U+1F9B" -> <<"U+1F23", "U+03B9">> [] c = "U+1F9C" -> <<"U+1F24", "U+03B9">>
      [] c = "U+1F9D" -> <<"U+1F25", "U+03B9">> [] c = "U+1F9E" -> <<"U+1F26", "U+03B9">>
      [] c = "U+1F9F" -> <<"U+1F27", "U+03B9">> [] c = "U+1FA0" -> <<"U+1F60", "U+03B9">>
      [] c = "U+1FA1" -> <<"U+1F61", "U+03B9">> [] c = "U+1FA2" -> <<"U+1F62", "U+03B9">>
      [] c = "U+1FA3" -> <<"U+1F63", "U+03B9">> [] c = "U+1FA4" -> <<"U+1F64", "U+03B9">>
      [] c = "U+1FA5" -> <<"U+1F65", "U+03B9">> [] c = "U+1FA6" -> <<"U+1F66", "U+03B9">>
      [] c = "U+1FA7" -> <<"U+1F67", "U+03B9">> [] c = "U+1FA8" -> <<"U+1F60", "U+03B9">>
      [] c = "U+1FA9" -> <<"U+1F61", "U+03B9">> [] c = "U+1FAA" -> <<"U+1F62", "U+03B9">>
      [] c = "U+1FAB" -> <<"U+1F63", "U+03B9">> [] c = "U+1FAC" -> <<"U+1F64", "U+03B9">>
      [] c = "U+1FAD" -> <<"U+1F65", "U+03B9">> [] c = "U+1FAE" -> <<"U+1F66", "U+03B9">>
      [] c = "U+1FAF" -> <<"U+1F67", "U+03B9">> [] c = "U+1FB2" -> <<"U+1F70", "U+03B9">>
      [] c = "U+1FB3" -> <<"U+03B1", "U+03B9">> [] c = "U+1FB4" -> <<"U+03AC", "U+03B9">>
      [] c = "U+1FB6" -> <<"U+03B1", "U+0342">>
      [] c = "U+1FB7" -> <<"U+03B1", "U+0342", "U+03B9">> [] c = "U+1FB8" -> <<"U+1FB0">>
      [] c = "U+1FB9" -> <<"U+1FB1">> [] c = "U+1FBA" -> <<"U+1F70">>
      [] c = "U+1FBB" -> <<"U+1F71">> [] c = "U+1FBC" -> <<"U+03B1", "U+03B9">>
      [] c = "U+1FBE" -> <<"U+03B9">> [] c = "U+1FC2" -> <<"U+1F74", "U+03B9">>
      [] c = "U+1FC3" -> <<"U+03B7", "U+03B9">> [] c = "U+1FC4" -> <<"U+03AE", "U+03B9">>
      [] c = "U+1FC6" -> <<"U+03B7", "U+0342">>
      [] c = "U+1FC7" -> <<"U+03B7", "U+0342", "U+03B9">> [] c = "U+1FC8" -> <<"U+1F72">>
      [] c = "U+1FC9" -> <<"U+1F73">> [] c = "U+1FCA" -> <<"U+1F74">>
      [] c = "U+1FCB" -> <<"U+1F75">> [] c = "U+1FCC" -> <<"U+03B7", "U+03B9">>
      [] c = "U+1FD2" -> <<"U+03B9", "U+0308", "U+0300">>
      [] c = "U+1FD3" -> <<"U+03B9", "U+0308", "U+0301">>
      [] c = "U+1FD6" -> <<"U+03B9", "U+0342">>
      [] c = "U+1FD7" -> <<"U+03B9", "U+0308", "U+0342">> [] c = "U+1FD8" -> <<"U+1FD0">>
      [] c = "U+1FD9" -> <<"U+1FD1">> [] c = "U+1FDA" -> <<"U+1F76">>
      [] c = "U+1FDB" -> <<"U+1F77">> [] c = "U+1FE2" -> <<"U+03C5", "U+0308", "U+0300">>
      [] c = "U+1FE3" -> <<"U+03C5", "U+0308", "U+0301">>
      [] c = "U+1FE4" -> <<"U+03C1", "U+0313">> [] c = "U+1FE6" -> <<"U+03C5", "U+0342">>
      [] c = "U+1FE7" -> <<"U+03C5", "U+0308", "U+0342">> [] c = "U+1FE8" -> <<"U+1FE0">>
      [] c = "U+1FE9" -> <<"U+1FE1">> [] c = "U+1FEA" -> <<"U+1F7A">>
      [] c = "U+1FEB" -> <<"U+1F7B">> [] c = "U+1FEC" -> <<"U+1FE5">>
      [] c = "U+1FF2" -> <<"U+1F7C", "U+03B9">> [] c = "U+1FF3" -> <<"U+03C9", "U+03B9">>
      [] c = "U+1FF4" -> <<"U+03CE", "U+03B9">> [] c = "U+1FF6" -> <<"U+03C9", "U+0342">>
      [] c = "U+1FF7" -> <<"U+03C9", "U+0342", "U+03B9">> [] c = "U+1FF8" -> <<"U+1F78">>
      [] c = "U+1FF9" -> <<"U+1F79">> [] c = "U+1FFA" -> <<"U+1F7C">>
      [] c = "U+1FFB" -> <<"U+1F7D">> [] c = "U+1FFC" -> <<"U+03C9", "U+03B9">>
      [] c = "U+2126" -> <<"U+03C9">> [] c = "U+212A" -> <<"k">> [] c = "U+212B" -> <<"U+00E5">>
      [] c = "U+2132" -> <<"U+214E">> [] c = "U+2160" -> <<"U+2170">>
      [] c = "U+2161" -> <<"U+2171">> [] c = "U+2162" -> <<"U+2172">>
      [] c = "U+2163" -> <<"U+2173">> [] c = "U+2164" -> <<"U+2174">>
      [] c = "U+2165" -> <<"U+2175">> [] c = "U+2166" -> <<"U+2176">>
      [] c = "U+2167" -> <<"U+2177">> [] c = "U+2168" -> <<"U+2178">>
      [] c = "U+2169" -> <<"U+2179">> [] c = "U+216A" -> <<"U+217A">>
      [] c = "U+216B" -> <<"U+217B">> [] c = "U+216C" -> <<"U+217C">>
      [] c = "U+216D" -> <<"U+217D">> [] c = "U+216E" -> <<"U+217E">>
      [] c = "U+216F" -> <<"U+217F">> [] c = "U+2183" -> <<"U+2184">>
      [] c = "U+24B6" -> <<"U+24D0">> [] c = "U+24B7" -> <<"U+24D1">>
      [] c = "U+24B8" -> <<"U+24D2">> [] c = "U+24B9" -> <<"U+24D3">>
      [] c = "U+24BA" -> <<"U+24D4">> [] c = "U+24BB" -> <<"U+24D5">>
      [] c = "U+24BC" -> <<"U+24D6">> [] c = "U+24BD" -> <<"U+24D7">>
      [] c = "U+24BE" -> <<"U+24D8">> [] c = "U+24BF" -> <<"U+24D9">>
      [] c = "U+24C0" -> <<"U+24DA">> [] c = "U+24C1" -> <<"U+24DB">>
      [] c = "U+24C2" -> <<"U+24DC">> [] c = "U+24C3" -> <<"U+24DD">>
      [] c = "U+24C4" -> <<"U+24DE">> [] c = "U+24C5" -> <<"U+24DF">>
      [] c = "U+24C6" -> <<"U+24E0">> [] c = "U+24C7" -> <<"U+24E1">>
      [] c = "U+24C8" -> <<"U+24E2">> [] c = "U+24C9" -> <<"U+24E3">>
      [] c = "U+24CA" -> <<"U+24E4">> [] c = "U+24CB" -> <<"U+24E5">>
      [] c = "U+24CC" -> <<"U+24E6">> [] c = "U+24CD" -> <<"U+24E7">>
      [] c = "U+24CE" -> <<"U+24E8">> [] c = "U+24CF" -> <<"U+24E9">>
      [] c = "U+2C00" -> <<"U+2C30">> [] c = "U+2C01" -> <<"U+2C31">>
      [] c = "U+2C02" -> <<"U+2C32">> [] c = "U+2C03" -> <<"U+2C33">>
      [] c = "U+2C04" -> <<"U+2C34">> [] c = "U+2C05" -> <<"U+2C35">>
      [] c = "U+2C06" -> <<"U+2C36">> [] c = "U+2C07" -> <<"U+2C37">>
      [] c = "U+2C08" -> <<"U+2C38">> [] c = "U+2C09" -> <<"U+2C39">>
      [] c = "U+2C0A" -> <<"U+2C3A">> [] c = "U+2C0B" -> <<"U+2C3B">>
      [] c = "U+2C0C" -> <<"U+2C3C">> [] c = "U+2C0D" -> <<"U+2C3D">>
      [] c = "U+2C0E" -> <<"U+2C3E">> [] c = "U+2C0F" -> <<"U+2C3F">>
      [] c = "U+2C10" -> <<"U+2C40">> [] c = "U+2C11" -> <<"U+2C41">>
      [] c = "U+2C12" -> <<"U+2C42">> [] c = "U+2C13" -> <<"U+2C43">>
      [] c = "U+2C14" -> <<"U+2C44">> [] c = "U+2C15" -> <<"U+2C45">>
      [] c = "U+2C16" -> <<"U+2C46">> [] c = "U+2C17" -> <<"U+2C47">>
      [] c = "U+2C18" -> <<"U+2C48">> [] c = "U+2C19" -> <<"U+2C49">>
      [] c = "U+2C1A" -> <<"U+2C4A">> [] c = "U+2C1B" -> <<"U+2C4B">>
      [] c = "U+2C1C" -> <<"U+2C4C">> [] c = "U+2C1D" -> <<"U+2C4D">>
      [] c = "U+2C1E" -> <<"U+2C4E">> [] c = "U+2C1F" -> <<"U+2C4F">>
      [] c = "U+2C20" -> <<"U+2C50">> [] c = "U+2C21" -> <<"U+2C51">>
      [] c = "U+2C22" -> <<"U+2C52">> [] c = "U+2C23" -> <<"U+2C53">>
      [] c = "U+2C24" -> <<"U+2C54">> [] c = "U+2C25" -> <<"U+2C55">>
      [] c = "U+2C26" -> <<"U+2C56">> [] c = "U+2C27" -> <<"U+2C57">>
      [] c = "U+2C28" -> <<"U+2C58">> [] c = "U+2C29" -> <<"U+2C59">>
      [] c = "U+2C2A" -> <<"U+2C5A">> [] c = "U+2C2B" -> <<"U+2C5B">>
      [] c = "U+2C2C" -> <<"U+2C5C">> [] c = "U+2C2D" -> <<"U+2C5D">>
      [] c = "U+2C2E" -> <<"U+2C5E">> [] c = "U+2C2F" -> <<"U+2C5F">>
      [] c = "U+2C60" -> <<"U+2C61">> [] c = "U+2C62" -> <<"U+026B">>
      [] c = "U+2C63" -> <<"U+1D7D">> [] c = "U+2C64" -> <<"U+027D">>
      [] c = "U+2C67" -> <<"U+2C68">> [] c = "U+2C69" -> <<"U+2C6A">>
      [] c = "U+2C6B" -> <<"U+2C6C">> [] c = "U+2C6D" -> <<"U+0251">>
      [] c = "U+2C6E" -> <<"U+0271">> [] c = "U+2C6F" -> <<"U+0250">>
      [] c = "U+2C70" -> <<"U+0252">> [] c = "U+2C72" -> <<"U+2C73">>
      [] c = "U+2C75" -> <<"U+2C76">> [] c = "U+2C7E" -> <<"U+023F">>
      [] c = "U+2C7F" -> <<"U+0240">> [] c = "U+2C80" -> <<"U+2C81">>
      [] c = "U+2C82" -> <<"U+2C83">> [] c = "U+2C84" -> <<"U+2C85">>
      [] c = "U+2C86" -> <<"U+2C87">> [] c = "U+2C88" -> <<"U+2C89">>
      [] c = "U+2C8A" -> <<"U+2C8B">> [] c = "U+2C8C" -> <<"U+2C8D">>
      [] c = "U+2C8E" -> <<"U+2C8F">> [] c = "U+2C90" -> <<"U+2C91">>
      [] c = "U+2C92" -> <<"U+2C93">> [] c = "U+2C94" -> <<"U+2C95">>
      [] c = "U+2C96" -> <<"U+2C97">> [] c = "U+2C98" -> <<"U+2C99">>
      [] c = "U+2C9A" -> <<"U+2C9B">> [] c = "U+2C9C" -> <<"U+2C9D">>
      [] c = "U+2C9E" -> <<"U+2C9F">> [] c = "U+2CA0" -> <<"U+2CA1">>
      [] c = "U+2CA2" -> <<"U+2CA3">> [] c = "U+2CA4" -> <<"U+2CA5">>
      [] c = "U+2CA6" -> <<"U+2CA7">> [] c = "U+2CA8" -> <<"U+2CA9">>
      [] c = "U+2CAA" -> <<"U+2CAB">> [] c = "U+2CAC" -> <<"U+2CAD">>
      [] c = "U+2CAE" -> <<"U+2CAF">> [] c = "U+2CB0" -> <<"U+2CB1">>
      [] c = "U+2CB2" -> <<"U+2CB3">> [] c = "U+2CB4" -> <<"U+2CB5">>
      [] c = "U+2CB6" -> <<"U+2CB7">> [] c = "U+2CB8" -> <<"U+2CB9">>
      [] c = "U+2CBA" -> <<"U+2CBB">> [] c = "U+2CBC" -> <<"U+2CBD">>
      [] c = "U+2CBE" -> <<"U+2CBF">> [] c = "U+2CC0" -> <<"U+2CC1">>
      [] c = "U+2CC2" -> <<"U+2CC3">> [] c = "U+2CC4" -> <<"U+2CC5">>
      [] c = "U+2CC6" -> <<"U+2CC7">> [] c = "U+2CC8" -> <<"U+2CC9">>
      [] c = "U+2CCA" -> <<"U+2CCB">> [] c = "U+2CCC" -> <<"U+2CCD">>
      [] c = "U+2CCE" -> <<"U+2CCF">> [] c = "U+2CD0" -> <<"U+2CD1">>
      [] c = "U+2CD2" -> <<"U+2CD3">> [] c = "U+2CD4" -> <<"U+2CD5">>
      [] c = "U+2CD6" -> <<"U+2CD7">> [] c = "U+2CD8" -> <<"U+2CD9">>
      [] c = "U+2CDA" -> <<"U+2CDB">> [] c = "U+2CDC" -> <<"U+2CDD">>
      [] c = "U+2CDE" -> <<"U+2CDF">> [] c = "U+2CE0" -> <<"U+2CE1">>
      [] c = "U+2CE2" -> <<"U+2CE3">> [] c = "U+2CEB" -> <<"U+2CEC">>
      [] c = "U+2CED" -> <<"U+2CEE">> [] c = "U+2CF2" -> <<"U+2CF3">>
      [] c = "U+A640" -> <<"U+A641">> [] c = "U+A642" -> <<"U+A643">>
      [] c = "U+A644" -> <<"U+A645">> [] c = "U+A646" -> <<"U+A647">>
      [] c = "U+A648" -> <<"U+A649">> [] c = "U+A64A" -> <<"U+A64B">>
      [] c = "U+A64C" -> <<"U+A64D">> [] c = "U+A64E" -> <<"U+A64F">>
      [] c = "U+A650" -> <<"U+A651">> [] c = "U+A652" -> <<"U+A653">>
      [] c = "U+A654" -> <<"U+A655">> [] c = "U+A656" -> <<"U+A657">>
      [] c = "U+A658" -> <<"U+A659">> [] c = "U+A65A" -> <<"U+A65B">>
      [] c = "U+A65C" -> <<"U+A65D">> [] c = "U+A65E" -> <<"U+A65F">>
      [] c = "U+A660" -> <<"U+A661">> [] c = "U+A662" -> <<"U+A663">>
      [] c = "U+A664" -> <<"U+A665">> [] c = "U+A666" -> <<"U+A667">>
      [] c = "U+A668" -> <<"U+A669">> [] c = "U+A66A" -> <<"U+A66B">>
      [] c = "U+A66C" -> <<"U+A66D">> [] c = "U+A680" -> <<"U+A681">>
      [] c = "U+A682" -> <<"U+A683">> [] c = "U+A684" -> <<"U+A685">>
      [] c = "U+A686" -> <<"U+A687">> [] c = "U+A688" -> <<"U+A689">>
      [] c = "U+A68A" -> <<"U+A68B">> [] c = "U+A68C" -> <<"U+A68D">>
      [] c = "U+A68E" -> <<"U+A68F">> [] c = "U+A690" -> <<"U+A691">>
      [] c = "U+A692" -> <<"U+A693">> [] c = "U+A694" -> <<"U+A695">>
      [] c = "U+A696" -> <<"U+A697">> [] c = "U+A698" -> <<"U+A699">>
      [] c = "U+A69A" -> <<"U+A69B">> [] c = "U+A722" -> <<"U+A723">>
      [] c = "U+A724" -> <<"U+A725">> [] c = "U+A726" -> <<"U+A727">>
      [] c = "U+A728" -> <<"U+A729">> [] c = "U+A72A" -> <<"U+A72B">>
      [] c = "U+A72C" -> <<"U+A72D">> [] c = "U+A72E" -> <<"U+A72F">>
      [] c = "U+A732" -> <<"U+A733">> [] c = "U+A734" -> <<"U+A735">>
      [] c = "U+A736" -> <<"U+A737">> [] c = "U+A738" -> <<"U+A739">>
      [] c = "U+A73A" -> <<"U+A73B">> [] c = "U+A73C" -> <<"U+A73D">>
      [] c = "U+A73E" -> <<"U+A73F">> [] c = "U+A740" -> <<"U+A741">>
      [] c = "U+A742" -> <<"U+A743">> [] c = "U+A744" -> <<"U+A745">>
      [] c = "U+A746" -> <<"U+A747">> [] c = "U+A748" -> <<"U+A749">>
      [] c = "U+A74A" -> <<"U+A74B">> [] c = "U+A74C" -> <<"U+A74D">>
      [] c = "U+A74E" -> <<"U+A74F">> [] c = "U+A750" -> <<"U+A751">>
      [] c = "U+A752" -> <<"U+A753">> [] c = "U+A754" -> <<"U+A755">>
      [] c = "U+A756" -> <<"U+A757">> [] c = "U+A758" -> <<"U+A759">>
      [] c = "U+A75A" -> <<"U+A75B">> [] c = "U+A75C" -> <<"U+A75D">>
      [] c = "U+A75E" -> <<"U+A75F">> [] c = "U+A760" -> <<"U+A761">>
      [] c = "U+A762" -> <<"U+A763">> [] c = "U+A764" -> <<"U+A765">>
      [] c = "U+A766" -> <<"U+A767">> [] c = "U+A768" -> <<"U+A769">>
      [] c = "U+A76A" -> <<"U+A76B">> [] c = "U+A76C" -> <<"U+A76D">>
      [] c = "U+A76E" -> <<"U+A76F">> [] c = "U+A779" -> <<"U+A77A">>
      [] c = "U+A77B" -> <<"U+A77C">> [] c = "U+A77D" -> <<"U+1D79">>
      [] c = "U+A77E" -> <<"U+A77F">> [] c = "U+A780" -> <<"U+A781">>
      [] c = "U+A782" -> <<"U+A783">> [] c = "U+A784" -> <<"U+A785">>
      [] c = "U+A786" -> <<"U+A787">> [] c = "U+A78B" -> <<"U+A78C">>
      [] c = "U+A78D" -> <<"U+0265">> [] c = "U+A790" -> <<"U+A791">>
      [] c = "U+A792" -> <<"U+A793">> [] c = "U+A796" -> <<"U+A797">>
      [] c = "U+A798" -> <<"U+A799">> [] c = "U+A79A" -> <<"U+A79B">>
      [] c = "U+A79C" -> <<"U+A79D">> [] c = "U+A79E" -> <<"U+A79F">>
      [] c = "U+A7A0" -> <<"U+A7A1">> [] c = "U+A7A2" -> <<"U+A7A3">>
      [] c = "U+A7A4" -> <<"U+A7A5">> [] c = "U+A7A6" -> <<"U+A7A7">>
      [] c = "U+A7A8" -> <<"U+A7A9">> [] c = "U+A7AA" -> <<"U+0266">>
      [] c = "U+A7AB" -> <<"U+025C">> [] c = "U+A7AC" -> <<"U+0261">>
      [] c = "U+A7AD" -> <<"U+026C">> [] c = "U+A7AE" -> <<"U+026A">>
      [] c = "U+A7B0" -> <<"U+029E">> [] c = "U+A7B1" -> <<"U+0287">>
      [] c = "U+A7B2" -> <<"U+029D">> [] c = "U+A7B3" -> <<"U+AB53">>
      [] c = "U+A7B4" -> <<"U+A7B5">> [] c = "U+A7B6" -> <<"U+A7B7">>
      [] c = "U+A7B8" -> <<"U+A7B9">> [] c = "U+A7BA" -> <<"U+A7BB">>
      [] c = "U+A7BC" -> <<"U+A7BD">> [] c = "U+A7BE" -> <<"U+A7BF">>
      [] c = "U+A7C0" -> <<"U+A7C1">> [] c = "U+A7C2" -> <<"U+A7C3">>
      [] c = "U+A7C4" -> <<"U+A794">> [] c = "U+A7C5" -> <<"U+0282">>
      [] c = "U+A7C6" -> <<"U+1D8E">> [] c = "U+A7C7" -> <<"U+A7C8">>
      [] c = "U+A7C9" -> <<"U+A7CA">> [] c = "U+A7D0" -> <<"U+A7D1">>
      [] c = "U+A7D6" -> <<"U+A7D7">> [] c = "U+A7D8" -> <<"U+A7D9">>
      [] c = "U+A7F5" -> <<"U+A7F6">> [] c = "U+AB70" -> <<"U+13A0">>
      [] c = "U+AB71" -> <<"U+13A1">> [] c = "U+AB72" -> <<"U+13A2">>
      [] c = "U+AB73" -> <<"U+13A3">> [] c = "U+AB74" -> <<"U+13A4">>
      [] c = "U+AB75" -> <<"U+13A5">> [] c = "U+AB76" -> <<"U+13A6">>
      [] c = "U+AB77" -> <<"U+13A7">> [] c = "U+AB78" -> <<"U+13A8">>
      [] c = "U+AB79" -> <<"U+13A9">> [] c = "U+AB7A" -> <<"U+13AA">>
      [] c = "U+AB7B" -> <<"U+13AB">> [] c = "U+AB7C" -> <<"U+13AC">>
      [] c = "U+AB7D" -> <<"U+13AD">> [] c = "U+AB7E" -> <<"U+13AE">>
      [] c = "U+AB7F" -> <<"U+13AF">> [] c = "U+AB80" -> <<"U+13B0">>
      [] c = "U+AB81" -> <<"U+13B1">> [] c = "U+AB82" -> <<"U+13B2">>
      [] c = "U+AB83" -> <<"U+13B3">> [] c = "U+AB84" -> <<"U+13B4">>
      [] c = "U+AB85" -> <<"U+13B5">> [] c = "U+AB86" -> <<"U+13B6">>
      [] c = "U+AB87" -> <<"U+13B7">> [] c = "U+AB88" -> <<"U+13B8">>
      [] c = "U+AB89" -> <<"U+13B9">> [] c = "U+AB8A" -> <<"U+13BA">>
      [] c = "U+AB8B" -> <<"U+13BB">> [] c = "U+AB8C" -> <<"U+13BC">>
      [] c = "U+AB8D" -> <<"U+13BD">> [] c = "U+AB8E" -> <<"U+13BE">>
      [] c = "U+AB8F" -> <<"U+13BF">> [] c = "U+AB90" -> <<"U+13C0">>
      [] c = "U+AB91" -> <<"U+13C1">> [] c = "U+AB92" -> <<"U+13C2">>
      [] c = "U+AB93" -> <<"U+13C3">> [] c = "U+AB94" -> <<"U+13C4">>
      [] c = "U+AB95" -> <<"U+13C5">> [] c = "U+AB96" -> <<"U+13C6">>
      [] c = "U+AB97" -> <<"U+13C7">> [] c = "U+AB98" -> <<"U+13C8">>
      [] c = "U+AB99" -> <<"U+13C9">> [] c = "U+AB9A" -> <<"U+13CA">>
      [] c = "U+AB9B" -> <<"U+13CB">> [] c = "U+AB9C" -> <<"U+13CC">>
      [] c = "U+AB9D" -> <<"U+13CD">> [] c = "U+AB9E" -> <<"U+13CE">>
      [] c = "U+AB9F" -> <<"U+13CF">> [] c = "U+ABA0" -> <<"U+13D0">>
      [] c = "U+ABA1" -> <<"U+13D1">> [] c = "U+ABA2" -> <<"U+13D2">>
      [] c = "U+ABA3" -> <<"U+13D3">> [] c = "U+ABA4" -> <<"U+13D4">>
      [] c = "U+ABA5" -> <<"U+13D5">> [] c = "U+ABA6" -> <<"U+13D6">>
      [] c = "U+ABA7" -> <<"U+13D7">> [] c = "U+ABA8" -> <<"U+13D8">>
      [] c = "U+ABA9" -> <<"U+13D9">> [] c = "U+ABAA" -> <<"U+13DA">>
      [] c = "U+ABAB" -> <<"U+13DB">> [] c = "U+ABAC" -> <<"U+13DC">>
      [] c = "U+ABAD" -> <<"U+13DD">> [] c = "U+ABAE" -> <<"U+13DE">>
      [] c = "U+ABAF" -> <<"U+13DF">> [] c = "U+ABB0" -> <<"U+13E0">>
      [] c = "U+ABB1" -> <<"U+13E1">> [] c = "U+ABB2" -> <<"U+13E2">>
      [] c = "U+ABB3" -> <<"U+13E3">> [] c = "U+ABB4" -> <<"U+13E4">>
      [] c = "U+ABB5" -> <<"U+13E5">> [] c = "U+ABB6" -> <<"U+13E6">>
      [] c = "U+ABB7" -> <<"U+13E7">> [] c = "U+ABB8" -> <<"U+13E8">>
      [] c = "U+ABB9" -> <<"U+13E9">> [] c = "U+ABBA" -> <<"U+13EA">>
      [] c = "U+ABBB" -> <<"U+13EB">> [] c = "U+ABBC" -> <<"U+13EC">>
      [] c = "U+ABBD" -> <<"U+13ED">> [] c = "U+ABBE" -> <<"U+13EE">>
      [] c = "U+ABBF" -> <<"U+13EF">> [] c = "U+FB00" -> <<"f", "f">>
      [] c = "U+FB01" -> <<"f", "i">> [] c = "U+FB02" -> <<"f", "l">>
      [] c = "U+FB03" -> <<"f", "f", "i">> [] c = "U+FB04" -> <<"f", "f", "l">>
      [] c = "U+FB05" -> <<"s", "t">> [] c = "U+FB06" -> <<"s", "t">>
      [] c = "U+FB13" -> <<"U+0574", "U+0576">> [] c = "U+FB14" -> <<"U+0574", "U+0565">>
      [] c = "U+FB15" -> <<"U+0574", "U+056B">> [] c = "U+FB16" -> <<"U+057E", "U+0576">>
      [] c = "U+FB17" -> <<"U+0574", "U+056D">> [] c = "U+FF21" -> <<"U+FF41">>
      [] c = "U+FF22" -> <<"U+FF42">> [] c = "U+FF23" -> <<"U+FF43">>
      [] c = "U+FF24" -> <<"U+FF44">> [] c = "U+FF25" -> <<"U+FF45">>
      [] c = "U+FF26" -> <<"U+FF46">> [] c = "U+FF27" -> <<"U+FF47">>
      [] c = "U+FF28" -> <<"U+FF48">> [] c = "U+FF29" -> <<"U+FF49">>
      [] c = "U+FF2A" -> <<"U+FF4A">> [] c = "U+FF2B" -> <<"U+FF4B">>
      [] c = "U+FF2C" -> <<"U+FF4C">> [] c = "U+FF2D" -> <<"U+FF4D">>
      [] c = "U+FF2E" -> <<"U+FF4E">> [] c = "U+FF2F" -> <<"U+FF4F">>
      [] c = "U+FF30" -> <<"U+FF50">> [] c = "U+FF31" -> <<"U+FF51">>
      [] c = "U+FF32" -> <<"U+FF52">> [] c = "U+FF33" -> <<"U+FF53">>
      [] c = "U+FF34" -> <<"U+FF54">> [] c = "U+FF35" -> <<"U+FF55">>
      [] c = "U+FF36" -> <<"U+FF56">> [] c = "U+FF37" -> <<"U+FF57">>
      [] c = "U+FF38" -> <<"U+FF58">> [] c = "U+FF39" -> <<"U+FF59">>
      [] c = "U+FF3A" -> <<"U+FF5A">> [] c = "U+10400" -> <<"U+10428">>
      [] c = "U+10401" -> <<"U+10429">> [] c = "U+10402" -> <<"U+1042A">>
      [] c = "U+10403" -> <<"U+1042B">> [] c = "U+10404" -> <<"U+1042C">>
      [] c = "U+10405" -> <<"U+1042D">> [] c = "U+10406" -> <<"U+1042E">>
      [] c = "U+10407" -> <<"U+1042F">> [] c = "U+10408" -> <<"U+10430">>
      [] c = "U+10409" -> <<"U+10431">> [] c = "U+1040A" -> <<"U+10432">>
      [] c = "U+1040B" -> <<"U+10433">> [] c = "U+1040C" -> <<"U+10434">>
      [] c = "U+1040D" -> <<"U+10435">> [] c = "U+1040E" -> <<"U+10436">>
      [] c = "U+1040F" -> <<"U+10437">> [] c = "U+10410" -> <<"U+10438">>
      [] c = "U+10411" -> <<"U+10439">> [] c = "U+10412" -> <<"U+1043A">>
      [] c = "U+10413" -> <<"U+1043B">> [] c = "U+10414" -> <<"U+1043C">>
      [] c = "U+10415" -> <<"U+1043D">> [] c = "U+10416" -> <<"U+1043E">>
      [] c = "U+10417" -> <<"U+1043F">> [] c = "U+10418" -> <<"U+10440">>
      [] c = "U+10419" -> <<"U+10441">> [] c = "U+1041A" -> <<"U+10442">>
      [] c = "U+1041B" -> <<"U+10443">> [] c = "U+1041C" -> <<"U+10444">>
      [] c = "U+1041D" -> <<"U+10445">> [] c = "U+1041E" -> <<"U+10446">>
      [] c = "U+1041F" -> <<"U+10447">> [] c = "U+10420" -> <<"U+10448">>
      [] c = "U+10421" -> <<"U+10449">> [] c = "U+10422" -> <<"U+1044A">>
      [] c = "U+10423" -> <<"U+1044B">> [] c = "U+10424" -> <<"U+1044C">>
      [] c = "U+10425" -> <<"U+1044D">> [] c = "U+10426" -> <<"U+1044E">>
      [] c = "U+10427" -> <<"U+1044F">> [] c = "U+104B0" -> <<"U+104D8">>
      [] c = "U+104B1" -> <<"U+104D9">> [] c = "U+104B2" -> <<"U+104DA">>
      [] c = "U+104B3" -> <<"U+104DB">> [] c = "U+104B4" -> <<"U+104DC">>
      [] c = "U+104B5" -> <<"U+104DD">> [] c = "U+104B6" -> <<"U+104DE">>
      [] c = "U+104B7" -> <<"U+104DF">> [] c = "U+104B8" -> <<"U+104E0">>
      [] c = "U+104B9" -> <<"U+104E1">> [] c = "U+104BA" -> <<"U+104E2">>
      [] c = "U+104BB" -> <<"U+104E3">> [] c = "U+104BC" -> <<"U+104E4">>
      [] c = "U+104BD" -> <<"U+104E5">> [] c = "U+104BE" -> <<"U+104E6">>
      [] c = "U+104BF" -> <<"U+104E7">> [] c = "U+104C0" -> <<"U+104E8">>
      [] c = "U+104C1" -> <<"U+104E9">> [] c = "U+104C2" -> <<"U+104EA">>
      [] c = "U+104C3" -> <<"U+104EB">> [] c = "U+104C4" -> <<"U+104EC">>
      [] c = "U+104C5" -> <<"U+104ED">> [] c = "U+104C6" -> <<"U+104EE">>
      [] c = "U+104C7" -> <<"U+104EF">> [] c = "U+104C8" -> <<"U+104F0">>
      [] c = "U+104C9" -> <<"U+104F1">> [] c = "U+104CA" -> <<"U+104F2">>
      [] c = "U+104CB" -> <<"U+104F3">> [] c = "U+104CC" -> <<"U+104F4">>
      [] c = "U+104CD" -> <<"U+104F5">> [] c = "U+104CE" -> <<"U+104F6">>
      [] c = "U+104CF" -> <<"U+104F7">> [] c = "U+104D0" -> <<"U+104F8">>
      [] c = "U+104D1" -> <<"U+104F9">> [] c = "U+104D2" -> <<"U+104FA">>
      [] c = "U+104D3" -> <<"U+104FB">> [] c = "U+10570" -> <<"U+10597">>
      [] c = "U+10571" -> <<"U+10598">> [] c = "U+10572" -> <<"U+10599">>
      [] c = "U+10573" -> <<"U+1059A">> [] c = "U+10574" -> <<"U+1059B">>
      [] c = "U+10575" -> <<"U+1059C">> [] c = "U+10576" -> <<"U+1059D">>
      [] c = "U+10577" -> <<"U+1059E">> [] c = "U+10578" -> <<"U+1059F">>
      [] c = "U+10579" -> <<"U+105A0">> [] c = "U+1057A" -> <<"U+105A1">>
      [] c = "U+1057C" -> <<"U+105A3">> [] c = "U+1057D" -> <<"U+105A4">>
      [] c = "U+1057E" -> <<"U+105A5">> [] c = "U+1057F" -> <<"U+105A6">>
      [] c = "U+10580" -> <<"U+105A7">> [] c = "U+10581" -> <<"U+105A8">>
      [] c = "U+10582" -> <<"U+105A9">> [] c = "U+10583" -> <<"U+105AA">>
      [] c = "U+10584" -> <<"U+105AB">> [] c = "U+10585" -> <<"U+105AC">>
      [] c = "U+10586" -> <<"U+105AD">> [] c = "U+10587" -> <<"U+105AE">>
      [] c = "U+10588" -> <<"U+105AF">> [] c = "U+10589" -> <<"U+105B0">>
      [] c = "U+1058A" -> <<"U+105B1">> [] c = "U+1058C" -> <<"U+105B3">>
      [] c = "U+1058D" -> <<"U+105B4">> [] c = "U+1058E" -> <<"U+105B5">>
      [] c = "U+1058F" -> <<"U+105B6">> [] c = "U+10590" -> <<"U+105B7">>
      [] c = "U+10591" -> <<"U+105B8">> [] c = "U+10592" -> <<"U+105B9">>
      [] c = "U+10594" -> <<"U+105BB">> [] c = "U+10595" -> <<"U+105BC">>
      [] c = "U+10C80" -> <<"U+10CC0">> [] c = "U+10C81" -> <<"U+10CC1">>
      [] c = "U+10C82" -> <<"U+10CC2">> [] c = "U+10C83" -> <<"U+10CC3">>
      [] c = "U+10C84" -> <<"U+10CC4">> [] c = "U+10C85" -> <<"U+10CC5">>
      [] c = "U+10C86" -> <<"U+10CC6">> [] c = "U+10C87" -> <<"U+10CC7">>
      [] c = "U+10C88" -> <<"U+10CC8">> [] c = "U+10C89" -> <<"U+10CC9">>
      [] c = "U+10C8A" -> <<"U+10CCA">> [] c = "U+10C8B" -> <<"U+10CCB">>
      [] c = "U+10C8C" -> <<"U+10CCC">> [] c = "U+10C8D" -> <<"U+10CCD">>
      [] c = "U+10C8E" -> <<"U+10CCE">> [] c = "U+10C8F" -> <<"U+10CCF">>
      [] c = "U+10C90" -> <<"U+10CD0">> [] c = "U+10C91" -> <<"U+10CD1">>
      [] c = "U+10C92" -> <<"U+10CD2">> [] c = "U+10C93" -> <<"U+10CD3">>
      [] c = "U+10C94" -> <<"U+10CD4">> [] c = "U+10C95" -> <<"U+10CD5">>
      [] c = "U+10C96" -> <<"U+10CD6">> [] c = "U+10C97" -> <<"U+10CD7">>
      [] c = "U+10C98" -> <<"U+10CD8">> [] c = "U+10C99" -> <<"U+10CD9">>
      [] c = "U+10C9A" -> <<"U+10CDA">> [] c = "U+10C9B" -> <<"U+10CDB">>
      [] c = "U+10C9C" -> <<"U+10CDC">> [] c = "U+10C9D" -> <<"U+10CDD">>
      [] c = "U+10C9E" -> <<"U+10CDE">> [] c = "U+10C9F" -> <<"U+10CDF">>
      [] c = "U+10CA0" -> <<"U+10CE0">> [] c = "U+10CA1" -> <<"U+10CE1">>
      [] c = "U+10CA2" -> <<"U+10CE2">> [] c = "U+10CA3" -> <<"U+10CE3">>
      [] c = "U+10CA4" -> <<"U+10CE4">> [] c = "U+10CA5" -> <<"U+10CE5">>
      [] c = "U+10CA6" -> <<"U+10CE6">> [] c = "U+10CA7" -> <<"U+10CE7">>
      [] c = "U+10CA8" -> <<"U+10CE8">> [] c = "U+10CA9" -> <<"U+10CE9">>
      [] c = "U+10CAA" -> <<"U+10CEA">> [] c = "U+10CAB" -> <<"U+10CEB">>
      [] c = "U+10CAC" -> <<"U+10CEC">> [] c = "U+10CAD" -> <<"U+10CED">>
      [] c = "U+10CAE" -> <<"U+10CEE">> [] c = "U+10CAF" -> <<"U+10CEF">>
      [] c = "U+10CB0" -> <<"U+10CF0">> [] c = "U+10CB1" -> <<"U+10CF1">>
      [] c = "U+10CB2" -> <<"U+10CF2">> [] c = "U+118A0" -> <<"U+118C0">>
      [] c = "U+118A1" -> <<"U+118C1">> [] c = "U+118A2" -> <<"U+118C2">>
      [] c = "U+118A3" -> <<"U+118C3">> [] c = "U+118A4" -> <<"U+118C4">>
      [] c = "U+118A5" -> <<"U+118C5">> [] c = "U+118A6" -> <<"U+118C6">>
      [] c = "U+118A7" -> <<"U+118C7">> [] c = "U+118A8" -> <<"U+118C8">>
      [] c = "U+118A9" -> <<"U+118C9">> [] c = "U+118AA" -> <<"U+118CA">>
      [] c = "U+118AB" -> <<"U+118CB">> [] c = "U+118AC" -> <<"U+118CC">>
      [] c = "U+118AD" -> <<"U+118CD">> [] c = "U+118AE" -> <<"U+118CE">>
      [] c = "U+118AF" -> <<"U+118CF">> [] c = "U+118B0" -> <<"U+118D0">>
      [] c = "U+118B1" -> <<"U+118D1">> [] c = "U+118B2" -> <<"U+118D2">>
      [] c = "U+118B3" -> <<"U+118D3">> [] c = "U+118B4" -> <<"U+118D4">>
      [] c = "U+118B5" -> <<"U+118D5">> [] c = "U+118B6" -> <<"U+118D6">>
      [] c = "U+118B7" -> <<"U+118D7">> [] c = "U+118B8" -> <<"U+118D8">>
      [] c = "U+118B9" -> <<"U+118D9">> [] c = "U+118BA" -> <<"U+118DA">>
      [] c = "U+118BB" -> <<"U+118DB">> [] c = "U+118BC" -> <<"U+118DC">>
      [] c = "U+118BD" -> <<"U+118DD">> [] c = "U+118BE" -> <<"U+118DE">>
      [] c = "U+118BF" -> <<"U+118DF">> [] c = "U+16E40" -> <<"U+16E60">>
      [] c = "U+16E41" -> <<"U+16E61">> [] c = "U+16E42" -> <<"U+16E62">>
      [] c = "U+16E43" -> <<"U+16E63">> [] c = "U+16E44" -> <<"U+16E64">>
      [] c = "U+16E45" -> <<"U+16E65">> [] c = "U+16E46" -> <<"U+16E66">>
      [] c = "U+16E47" -> <<"U+16E67">> [] c = "U+16E48" -> <<"U+16E68">>
      [] c = "U+16E49" -> <<"U+16E69">> [] c = "U+16E4A" -> <<"U+16E6A">>
      [] c = "U+16E4B" -> <<"U+16E6B">> [] c = "U+16E4C" -> <<"U+16E6C">>
      [] c = "U+16E4D" -> <<"U+16E6D">> [] c = "U+16E4E" -> <<"U+16E6E">>
      [] c = "U+16E4F" -> <<"U+16E6F">> [] c = "U+16E50" -> <<"U+16E70">>
      [] c = "U+16E51" -> <<"U+16E71">> [] c = "U+16E52" -> <<"U+16E72">>
      [] c = "U+16E53" -> <<"U+16E73">> [] c = "U+16E54" -> <<"U+16E74">>
      [] c = "U+16E55" -> <<"U+16E75">> [] c = "U+16E56" -> <<"U+16E76">>
      [] c = "U+16E57" -> <<"U+16E77">> [] c = "U+16E58" -> <<"U+16E78">>
      [] c = "U+16E59" -> <<"U+16E79">> [] c = "U+16E5A" -> <<"U+16E7A">>
      [] c = "U+16E5B" -> <<"U+16E7B">> [] c = "U+16E5C" -> <<"U+16E7C">>
      [] c = "U+16E5D" -> <<"U+16E7D">> [] c = "U+16E5E" -> <<"U+16E7E">>
      [] c = "U+16E5F" -> <<"U+16E7F">> [] c = "U+1E900" -> <<"U+1E922">>
      [] c = "U+1E901" -> <<"U+1E923">> [] c = "U+1E902" -> <<"U+1E924">>
      [] c = "U+1E903" -> <<"U+1E925">> [] c = "U+1E904" -> <<"U+1E926">>
      [] c = "U+1E905" -> <<"U+1E927">> [] c = "U+1E906" -> <<"U+1E928">>
      [] c = "U+1E907" -> <<"U+1E929">> [] c = "U+1E908" -> <<"U+1E92A">>
      [] c = "U+1E909" -> <<"U+1E92B">> [] c = "U+1E90A" -> <<"U+1E92C">>
      [] c = "U+1E90B" -> <<"U+1E92D">> [] c = "U+1E90C" -> <<"U+1E92E">>
      [] c = "U+1E90D" -> <<"U+1E92F">> [] c = "U+1E90E" -> <<"U+1E930">>
      [] c = "U+1E90F" -> <<"U+1E931">> [] c = "U+1E910" -> <<"U+1E932">>
      [] c = "U+1E911" -> <<"U+1E933">> [] c = "U+1E912" -> <<"U+1E934">>
      [] c = "U+1E913" -> <<"U+1E935">> [] c = "U+1E914" -> <<"U+1E936">>
      [] c = "U+1E915" -> <<"U+1E937">> [] c = "U+1E916" -> <<"U+1E938">>
      [] c = "U+1E917" -> <<"U+1E939">> [] c = "U+1E918" -> <<"U+1E93A">>
      [] c = "U+1E919" -> <<"U+1E93B">> [] c = "U+1E91A" -> <<"U+1E93C">>
      [] c = "U+1E91B" -> <<"U+1E93D">> [] c = "U+1E91C" -> <<"U+1E93E">>
      [] c = "U+1E91D" -> <<"U+1E93F">> [] c = "U+1E91E" -> <<"U+1E940">>
      [] c = "U+1E91F" -> <<"U+1E941">> [] c = "U+1E920" -> <<"U+1E942">>
      [] c = "U+1E921" -> <<"U+1E943">>
      [] OTHER -> <<c>>

AsciiMinusculas == {
    "a", "b", "c", "d", "e", "f", "g", "h", "i", "j", "k", "l", "m",
    "n", "o", "p", "q", "r", "s", "t", "u", "v", "w", "x", "y", "z" }

PlegarChar(c) == IF c \in AsciiMinusculas THEN <<c>> ELSE PlegarTabla(c)

RECURSIVE Plegar(_)
Plegar(s) == IF s = << >> THEN << >> ELSE PlegarChar(Head(s)) \o Plegar(Tail(s))

\* s and t are the same text ignoring letter case
MismoSinCaja(s, t) == Plegar(s) = Plegar(t)

\* the tag is one of email, sms, push, ignoring letter case
EnCatalogo(t) == \E c \in {T_email, T_sms, T_push} : MismoSinCaja(t, c)

\* the channel a valid tag names
Canal(t) == IF IgualSinCaja(t, T_email) THEN "EMAIL"
            ELSE IF IgualSinCaja(t, T_sms) THEN "SMS"
            ELSE IF IgualSinCaja(t, T_push) THEN "PUSH"
            ELSE "?"

\* the address the specification gives for a channel
Direccion(u, canal) == IF canal = "EMAIL" THEN u.email
                       ELSE IF canal = "SMS" THEN u.telefono
                       ELSE u.nombre

----------------------------------------------------------------------------
(* Properties *)

\* C1: the membership list never holds a subscriber twice, and an add of a
\* subscriber that is already a member leaves the list as it was (add(s) twice
\* on an empty hub gives size 1).
C1_SinDuplicados ==
    /\ SinRepetidos(observadores)
    /\ (ultima.op = "agregar" /\ EnLista(previos, ultima.obj)) => observadores = previos
    /\ (ultima.op = "agregar" /\ previos = <<ultima.obj>>) => Len(observadores) = 1

C1_Testigo ==
    /\ ultima.op = "agregar"
    /\ previos = <<ultima.obj>>
    /\ observadores = <<ultima.obj>>

\* C2: eliminarObservador(s) never raises; afterwards the list is the previous
\* list without s, the others kept in order; when s was not a member the list
\* is unchanged.
C2_EliminarSeguro ==
    ultima.op = "eliminar" =>
       /\ excepcion = NoExc
       /\ observadores = Quitar(previos, ultima.obj)
       /\ ~EnLista(observadores, ultima.obj)
       /\ (~EnLista(previos, ultima.obj) => observadores = previos)

C2_Testigo ==
    /\ ultima.op = "eliminar"
    /\ ~EnLista(previos, ultima.obj)
    /\ EnLista(registro, ultima.obj)
    /\ Len(previos) >= 2
    /\ observadores = previos
    /\ excepcion = NoExc

\* C3: notificarObservadores(m) calls actualizar(m) exactly once on every
\* member, on no object that is not a member, and makes no call at all on an
\* empty list.
C3_UnaLlamadaPorMiembro ==
    ultima.op = "notificar" =>
       /\ \A o \in 1..Len(usuarios) :
             Cuenta(llamadas, LAMBDA c : c.obj = o) = IF EnLista(previos, o) THEN 1 ELSE 0
       /\ \A i \in 1..Len(llamadas) : llamadas[i].mensaje = ultima.mensaje
       /\ (previos = << >> => llamadas = << >>)

C3_Testigo ==
    /\ ultima.op = "notificar"
    /\ Len(previos) = 2
    /\ Len(llamadas) = 2
    /\ \E o \in 1..Len(usuarios) : EnLista(registro, o) /\ ~EnLista(previos, o)

\* C4: for a tag t outside {email, sms, push} (ignoring letter case),
\* crearNotificacion(t) returns no sender and fails with an unknown-channel
\* error that carries the tag (up to letter case), and Usuario.actualizar of a
\* subscriber built with such a tag returns normally with one warning and no
\* delivery event.
C4_TagDesconocidoRechazado ==
    /\ (ultima.op = "crearNotificacion" /\ ~EnCatalogo(ultima.tag)) =>
          /\ retorno = NoRet
          /\ excepcion.tipo = "ValueError"
          /\ MismoSinCaja(excepcion.arg, ultima.tag)
    /\ (ultima.op = "actualizar" /\ ~EnCatalogo(tagsDados[ultima.obj])) =>
          /\ excepcion = NoExc
          /\ Len(salida) = 1
          /\ salida[1].evento = "error"

\* C5: a member with an unsupported tag, at any position, does not abort the
\* broadcast: no exception reaches the caller, the loop runs to its end, and
\* every member with a supported tag gets its one delivery event for m, in its
\* place, before and after the malformed one.
C5_DifusionNoAbortada ==
    (ultima.op = "notificar"
       /\ \E i \in 1..Len(previos) : ~TagValido(tagsDados[previos[i]])) =>
       /\ excepcion = NoExc
       /\ Len(salida) = Len(previos) + 2
       /\ salida[Len(salida)].evento = "fin"
       /\ \A i \in 1..Len(previos) :
             TagValido(tagsDados[previos[i]]) =>
                /\ salida[i + 1].evento = "envio"
                /\ salida[i + 1].texto = <<"¡Hola ", usuarios[previos[i]].nombre, "! ",
                                            ultima.mensaje>>
       /\ Cuenta(salida, LAMBDA e : e.evento = "envio")
             = Cuenta(previos, LAMBDA o : TagValido(tagsDados[o]))

C5_Testigo ==
    /\ ultima.op = "notificar"
    /\ Len(previos) = 3
    /\ TagValido(tagsDados[previos[1]])
    /\ ~TagValido(tagsDados[previos[2]])
    /\ TagValido(tagsDados[previos[3]])
    /\ salida[2].evento = "envio"
    /\ salida[3].evento = "error"
    /\ salida[4].evento = "envio"

\* C6: for a tag t equal to email, sms or push ignoring letter case,
\* crearNotificacion(t) returns the sender of that channel, and actualizar(m)
\* of a subscriber built with t gives exactly one delivery event, on that
\* channel, addressed to the e-mail address (email), the phone (sms) or the
\* display name (push).
C6_CanalYDestino ==
    /\ (ultima.op = "crearNotificacion" /\ TagValido(ultima.tag)) =>
          /\ retorno = Canal(ultima.tag)
          /\ excepcion = NoExc
    /\ (ultima.op = "actualizar" /\ TagValido(tagsDados[ultima.obj])) =>
          /\ excepcion = NoExc
          /\ Len(salida) = 1
          /\ salida[1].evento = "envio"
          /\ salida[1].canal = Canal(tagsDados[ultima.obj])
          /\ salida[1].quien = Direccion(usuarios[ultima.obj], Canal(tagsDados[ultima.obj]))
          /\ salida[1].texto[4] = ultima.mensaje

C6_Testigo ==
    /\ ultima.op = "actualizar"
    /\ tagsDados[ultima.obj] = T_SmS
    /\ salida[1].canal = "SMS"
    /\ salida[1].quien = usuarios[ultima.obj].telefono

\* C7: the broadcast calls the members in registration order: for two members
\* a and b, a is called before b exactly when the most recent successful add
\* of a came before that of b.
C7_OrdenDeRegistro ==
    ultima.op = "notificar" =>
       \A a, b \in 1..Len(usuarios) :
          (a # b /\ EnLista(previos, a) /\ EnLista(previos, b)) =>
             /\ \E i \in 1..Len(llamadas) : llamadas[i].obj = a
             /\ \E j \in 1..Len(llamadas) : llamadas[j].obj = b
             /\ (\E i, j \in 1..Len(llamadas) :
                    i < j /\ llamadas[i].obj = a /\ llamadas[j].obj = b)
                <=> Pos(registro, a) < Pos(registro, b)

\* a broadcast to two members that were first added in the other order (the
\* earlier one was removed and added again), with a removed object in between
C7_Testigo ==
    /\ ultima.op = "notificar"
    /\ Len(llamadas) = 2
    /\ llamadas[1].obj > llamadas[2].obj
    /\ Len(registro) = 3
    /\ registro[1] = llamadas[1].obj
    /\ registro[3] = llamadas[2].obj

\* C8: after notificarObservadores(m) every member records m as its last-seen
\* message (in an attribute other than the four the constructor sets).
C8_UltimoMensajeVisto ==
    ultima.op = "notificar" =>
       \A i \in 1..Len(observadores) :
          \E a \in DOMAIN usuarios[observadores[i]] \ CamposConstructor :
             usuarios[observadores[i]][a] = ultima.mensaje

\* C9: every agregarObservador call prints exactly one event: "suscripcion"
\* when the subscriber was inserted, a distinct "already subscribed" event when
\* it was a member already.
C9_UnEventoPorAlta ==
    ultima.op = "agregar" =>
       /\ Len(salida) = 1
       /\ (~EnLista(previos, ultima.obj) => salida[1].evento = "suscripcion")
       /\ (EnLista(previos, ultima.obj) =>
              salida[1].evento # "suscripcion" /\ observadores = previos)

\* C10: membership is by object identity: an object that is not in the list is
\* appended even when the list holds another object with the same four fields;
\* a broadcast then makes one delivery per such object; removing one of two
\* look-alike members leaves the other one subscribed.
C10_IdentidadDeObjeto ==
    /\ (ultima.op = "agregar" /\ ~EnLista(previos, ultima.obj)) =>
          /\ observadores = Append(previos, ultima.obj)
          /\ Len(observadores) = Len(previos) + 1
    /\ ultima.op = "notificar" =>
          \A o \in 1..Len(usuarios) :
             (EnLista(previos, o) /\ TagValido(tagsDados[o])) =>
                Cuenta(salida, LAMBDA e : /\ e.evento = "envio"
                                           /\ e.canal = Canal(tagsDados[o])
                                           /\ e.quien = Destino(usuarios[o])
                                           /\ e.texto[2] = usuarios[o].nombre)
                   = Cuenta(previos,
                            LAMBDA x : /\ usuarios[x].metodo_notif = usuarios[o].metodo_notif
                                       /\ Destino(usuarios[x]) = Destino(usuarios[o])
                                       /\ usuarios[x].nombre = usuarios[o].nombre)
    /\ ultima.op = "eliminar" =>
          \A b \in 1..Len(usuarios) :
             (b # ultima.obj /\ EnLista(previos, b)) => EnLista(observadores, b)

C10_Testigo ==
    /\ ultima.op = "notificar"
    /\ Len(previos) = 2
    /\ previos[1] # previos[2]
    /\ usuarios[previos[1]] = usuarios[previos[2]]
    /\ TagValido(tagsDados[previos[1]])
    /\ Len(salida) = 4
    /\ salida[2] = salida[3]
    /\ salida[2].evento = "envio"

====
